---- MODULE Spec2Model ----
(***************************************************************************)
(* Verification model of the GE Pulse portfolio valuation and tax engine:  *)
(*   - calculateGeTax                       (utils/image.ts)               *)
(*   - open/closed partition, summaryStats  (components/PortfolioPage.tsx) *)
(*   - calculateHistory                     (components/PortfolioPage.tsx) *)
(*                                                                         *)
(* Numbers are JavaScript doubles in the source.  Every quantity of the    *)
(* model is an integer far below 2^53, where double arithmetic on          *)
(* integers is exact; floor(x * 0.02) equals floor(x / 50) for every such  *)
(* integer x, because the exact quotient is either an integer or at least  *)
(* 1/50 away from one.                                                     *)
(***************************************************************************)
EXTENDS Integers, Sequences, FiniteSets, Bags, TLC

VARIABLES
    \* ---- calculateGeTax: arguments of the call and the value it returned
    itemName, sellPrice, quantity, taxReturn,
    \* ---- PortfolioPage: the props investments and latestPrices, and the
    \* memoised values the component derives from them when it renders
    investments, latestPrices, openPositions, closedPositions, summaryStats,
    \* ---- PortfolioPage, portfolio chart: the component state timeRange,
    \* portfolioHistory and isHistoryLoading; the clock (new Date()) and the
    \* browser's time zone; the calculateHistory invocations that wait for
    \* their fetches; and, for the invocation that wrote portfolioHistory
    \* last, the timeRange it had captured and the settled responses it read
    timeRange, portfolioHistory, isHistoryLoading,
    now, timezoneOffset,
    pendingCalcs, calcTimeRange, timeseriesResponses,
    \* ---- App: the session and the profile (and whether a getProfile call is
    \* awaited), the view, the error message, the modals' flags, and the
    \* user's watchlist and price alerts.  (investments above is the App state the page receives.)
    session, profile, profilePending, currentView, selectedItem, error,
    isAuthModalOpen, isProfileModalOpen, watchlist, alerts,
    isAddInvestmentModalOpen, investmentModalItem,
    \* ---- the state of the mounted AddInvestmentModal, PortfolioPage and
    \* SellInvestmentModal (null while the component is not mounted)
    addModal, portfolioPage, sellModal,
    \* ---- the store requests that have not settled, and the store: its
    \* investments and watchlists rows of the user and its id generator
    inflight, storeInvestments, storeWatchlist, nextId,
    \* ---- App: the item catalog, the flags of the initial load and of the
    \* price fetch, the timeseries of the selected item; the state of the
    \* mounted ItemView (null while it is not mounted); the fetchTimeseries
    \* calls that have not settled, in the order they were made, and the
    \* number of calls made so far
    items, isLoading, isItemLoading, timeseries, itemView, fetches, fetchCount,
    \* ---- parseShorthandPrice: the argument of the call and the value it
    \* returned
    shorthandValue, shorthandReturn

taxVars == <<itemName, sellPrice, quantity, taxReturn>>
propVars == <<investments, latestPrices>>
memoVars == <<openPositions, closedPositions, summaryStats>>

chartVars == <<timeRange, portfolioHistory, isHistoryLoading>>
clockVars == <<now, timezoneOffset>>
calcVars == <<pendingCalcs, calcTimeRange, timeseriesResponses>>
historyVars == <<chartVars, clockVars, calcVars>>

authVars == <<session, profile, profilePending>>
viewVars == <<currentView, selectedItem, error, isAuthModalOpen, isProfileModalOpen>>
modalVars == <<isAddInvestmentModalOpen, investmentModalItem, addModal, portfolioPage, sellModal>>
storeVars == <<inflight, storeInvestments, storeWatchlist, nextId>>
itemVars == <<items, isLoading, isItemLoading, timeseries, itemView, fetches, fetchCount>>
appVars == <<authVars, viewVars, watchlist, alerts, modalVars, storeVars, itemVars>>
parseVars == <<shorthandValue, shorthandReturn>>

vars == <<taxVars, propVars, memoVars, historyVars, appVars, parseVars>>

\* A nullable value of the source (number | null) is the empty sequence for
\* null and a one-element sequence for a number.
Null == <<>>
Some(v) == <<v>>
IsNull(x) == x = Null
ValueOf(x) == x[1]

Min(a, b) == IF a <= b THEN a ELSE b

\* The return slot of a call: empty until the function has returned, then the
\* one-element sequence holding the returned value.
NoReturn == <<>>
Returned(v) == <<v>>

(***************************************************************************)
(* utils/image.ts : calculateGeTax                                         *)
(***************************************************************************)
TAX_EXEMPT_ITEMS ==
    { "Old school bonds", "Energy potion", "Bronze arrow", "Bronze dart",
      "Iron arrow", "Iron dart", "Mind rune", "Steel arrow", "Steel dart",
      "Bass", "Bread", "Cake", "Cooked chicken", "Cooked meat", "Herring",
      "Lobster", "Mackerel", "Meat pie", "Pike", "Salmon", "Shrimps", "Tuna",
      "Ardougne teleport", "Camelot teleport", "Civitas illa fortis teleport",
      "Falador teleport", "Games necklace (8)", "Kourend castle teleport",
      "Lumbridge teleport", "Ring of dueling (8)", "Teleport to house",
      "Varrock teleport", "Chisel", "Gardening trowel", "Glassblowing pipe",
      "Hammer", "Needle", "Pestle and mortar", "Rake", "Saw", "Secateurs",
      "Seed dibber", "Shears", "Spade", "Watering can (0)" }

\* TAX_RATE = 0.02, kept as the integer number of hundredths.
TAX_RATE_PERCENT == 2
MIN_PRICE_FOR_TAX == 50
MAX_TAX_AMOUNT == 5000000

\* Math.floor(totalSaleValue * TAX_RATE); \div rounds toward minus infinity,
\* as Math.floor does.
RawTax(totalSaleValue) == (totalSaleValue * TAX_RATE_PERCENT) \div 100

\* Plausible slips of calculateGeTax, used to show that the properties below
\* depend on the code.
calculateGeTax_NoCap(name, price, qty) ==
    IF name \in TAX_EXEMPT_ITEMS THEN 0
    ELSE IF price <= MIN_PRICE_FOR_TAX THEN 0
    ELSE RawTax(price * qty)

calculateGeTax_FloorFirst(name, price, qty) ==
    IF price <= MIN_PRICE_FOR_TAX THEN 0
    ELSE Min(RawTax(price * qty), MAX_TAX_AMOUNT)

calculateGeTax_FloorOnTotal(name, price, qty) ==
    IF name \in TAX_EXEMPT_ITEMS THEN 0
    ELSE IF price * qty <= MIN_PRICE_FOR_TAX THEN 0
    ELSE Min(RawTax(price * qty), MAX_TAX_AMOUNT)

calculateGeTax(name, price, qty) ==
    IF name \in TAX_EXEMPT_ITEMS THEN 0
    ELSE IF price <= MIN_PRICE_FOR_TAX THEN 0
    ELSE Min(RawTax(price * qty), MAX_TAX_AMOUNT)

\* ---- inputs of the tax specification
\* Prices and quantities around the decision points of the function: the
\* price floor, zero, negative values, and sale values on both sides of the
\* cap (MAX_TAX_AMOUNT is reached at a sale value of 250,000,000).
PriceSpread == 2
MaxSmallQuantity == 3
BigPrice == 100000000
BigQuantity == 1000000

NonExemptNames == { "Rune platebody", "Abyssal whip", "old school bonds", "" }
TaxItemNames == TAX_EXEMPT_ITEMS \cup NonExemptNames

TaxSellPrices ==
    ((MIN_PRICE_FOR_TAX - PriceSpread) .. (MIN_PRICE_FOR_TAX + PriceSpread))
        \cup (-1 .. 1) \cup { -BigPrice, 1000, BigPrice }

TaxQuantities ==
    ((-MaxSmallQuantity) .. MaxSmallQuantity) \cup { 100, BigQuantity }

\* The sale value stays inside the range the model checker computes in.
TaxInRange(price, qty) ==
    \/ price \in { -BigPrice, BigPrice } /\ qty \in (-MaxSmallQuantity) .. MaxSmallQuantity
    \/ price \notin { -BigPrice, BigPrice } /\ qty * price <= 5 * BigPrice
                                            /\ qty * price >= -5 * BigPrice

\* The state of the parts a specification does not exercise.
IdleTax ==
    /\ itemName = "" /\ sellPrice = 0 /\ quantity = 0 /\ taxReturn = NoReturn

IdlePortfolio ==
    /\ investments = <<>> /\ latestPrices = <<>>
    /\ openPositions = <<>> /\ closedPositions = <<>> /\ summaryStats = NoReturn

IdleHistory ==
    /\ timeRange = "1M" /\ portfolioHistory = <<>> /\ isHistoryLoading = TRUE
    /\ now = 0 /\ timezoneOffset = 0
    /\ pendingCalcs = <<>> /\ calcTimeRange = "none" /\ timeseriesResponses = <<>>

IdleApp ==
    /\ session = <<>> /\ profile = <<>> /\ profilePending = FALSE
    /\ currentView = "search" /\ selectedItem = <<>> /\ error = <<>>
    /\ isAuthModalOpen = FALSE /\ isProfileModalOpen = FALSE
    /\ watchlist = <<>> /\ alerts = <<>>
    /\ isAddInvestmentModalOpen = FALSE /\ investmentModalItem = <<>>
    /\ addModal = <<>> /\ portfolioPage = <<>> /\ sellModal = <<>>
    /\ inflight = EmptyBag /\ storeInvestments = {} /\ storeWatchlist = {} /\ nextId = 1
    /\ items = <<>> /\ isLoading = FALSE /\ isItemLoading = FALSE
    /\ timeseries = <<>> /\ itemView = <<>> /\ fetches = <<>> /\ fetchCount = 0

IdleParse ==
    /\ shorthandValue = <<>> /\ shorthandReturn = NoReturn

InitTax ==
    /\ IdleParse
    /\ IdlePortfolio
    /\ IdleHistory
    /\ IdleApp
    /\ itemName \in TaxItemNames
    /\ sellPrice \in TaxSellPrices
    /\ quantity \in TaxQuantities
    /\ TaxInRange(sellPrice, quantity)
    /\ taxReturn = NoReturn

\* One call calculateGeTax(itemName, sellPrice, quantity).
CalculateGeTaxCall ==
    /\ taxReturn = NoReturn
    /\ taxReturn' = Returned(calculateGeTax(itemName, sellPrice, quantity))
    /\ UNCHANGED <<itemName, sellPrice, quantity, propVars, memoVars, historyVars, appVars, parseVars>>

NextTax == CalculateGeTaxCall

SpecTax == InitTax /\ [][NextTax]_vars

TaxReturned == taxReturn # NoReturn
TaxValue == taxReturn[1]
NonExempt == itemName \notin TAX_EXEMPT_ITEMS

\* C1: for a non-exempt item, a unit sell price above 50 and a positive
\* quantity, calculateGeTax returns min(floor(0.02 * price * quantity),
\* 5,000,000); in particular it never returns more than 5,000,000.
Claim1_TaxFormula ==
    (TaxReturned /\ NonExempt /\ sellPrice > 50 /\ quantity > 0) =>
        /\ TaxValue = Min((sellPrice * quantity) \div 50, 5000000)
        /\ TaxValue <= 5000000

\* C1 witness: a taxed sale whose 2% exceeds the cap has returned.
Witness1_CapReached ==
    /\ TaxReturned /\ NonExempt /\ sellPrice > 50 /\ quantity > 0
    /\ (sellPrice * quantity) \div 50 > 5000000
    /\ TaxValue = 5000000

\* C2: for every item of the exemption set calculateGeTax returns 0,
\* whatever the unit sell price and the quantity.
Claim2_ExemptIsZero ==
    (TaxReturned /\ itemName \in TAX_EXEMPT_ITEMS) => TaxValue = 0

\* C2 witness: an exempt item sold above the price floor, with a sale value
\* whose 2% is positive, has returned.
Witness2_ExemptAboveFloor ==
    /\ TaxReturned /\ itemName = "Old school bonds"
    /\ sellPrice > 50 /\ sellPrice * quantity >= 50
    /\ TaxValue = 0

\* C3: calculateGeTax returns 0 whenever the unit sell price is <= 50,
\* however large price * quantity is; at 51 the same quantity is taxed at
\* min(floor(0.02 * 51 * quantity), 5,000,000).
Claim3_FloorOnUnitPrice ==
    TaxReturned =>
        /\ sellPrice <= 50 => TaxValue = 0
        /\ (sellPrice = 51 /\ NonExempt) =>
               TaxValue = Min((51 * quantity) \div 50, 5000000)

\* C3 witness: a non-exempt item at exactly the floor price, in a quantity
\* whose total sale value is far above 50, has returned 0.
Witness3_AtFloorLargeTotal ==
    /\ TaxReturned /\ NonExempt
    /\ sellPrice = 50 /\ sellPrice * quantity > 5000
    /\ TaxValue = 0

\* C4: calculateGeTax never returns a negative value, for every item name,
\* unit sell price and quantity (zero and negative quantities included).
Claim4_NeverNegative ==
    TaxReturned => TaxValue >= 0

(***************************************************************************)
(* components/PortfolioPage.tsx : open/closed partition and summaryStats   *)
(***************************************************************************)
\* An Investment (types.ts) without user_id and created_at, which no
\* computation of the page reads.  sell_price, sell_date and tax_paid are
\* nullable.
Investment(id, item_id, qty, purchase_price, purchase_date, sell_price, sell_date, tax_paid) ==
    [ id |-> id, item_id |-> item_id, quantity |-> qty,
      purchase_price |-> purchase_price, purchase_date |-> purchase_date,
      sell_price |-> sell_price, sell_date |-> sell_date, tax_paid |-> tax_paid ]

\* A slip: the falsy test !inv.sell_price, which also takes a sell price of
\* 0 for "not sold".
IsOpen_Falsy(inv) == inv.sell_price = Null \/ inv.sell_price = Some(0)

\* inv.sell_price === null
IsOpen(inv) == inv.sell_price = Null

\* investments.reduce(...) of the useMemo: each record is pushed, in order,
\* to exactly one of the two accumulator arrays.
RECURSIVE PartitionReduce(_, _, _)
PartitionReduce(invs, i, acc) ==
    IF i > Len(invs) THEN acc
    ELSE PartitionReduce(invs, i + 1,
            IF IsOpen(invs[i])
            THEN [acc EXCEPT !.openPositions = Append(@, invs[i])]
            ELSE [acc EXCEPT !.closedPositions = Append(@, invs[i])])

Partition(invs) ==
    PartitionReduce(invs, 1, [openPositions |-> <<>>, closedPositions |-> <<>>])

\* latestPrices[inv.item_id]?.high ?? 0
CurrentPrice(prices, item_id) ==
    IF item_id \notin DOMAIN prices THEN 0
    ELSE IF prices[item_id].high = Null THEN 0
    ELSE ValueOf(prices[item_id].high)

\* openPositions.forEach(...) of summaryStats
RECURSIVE OpenForEach(_, _, _, _)
OpenForEach(open, prices, i, acc) ==
    IF i > Len(open) THEN acc
    ELSE LET inv == open[i]
             currentPrice == CurrentPrice(prices, inv.item_id)
             purchaseValue == inv.purchase_price * inv.quantity
             currentValue == currentPrice * inv.quantity
         IN  OpenForEach(open, prices, i + 1,
                [acc EXCEPT !.totalValue = @ + currentValue,
                            !.unrealisedProfit = @ + (currentValue - purchaseValue)])

\* closedPositions.forEach(...) of summaryStats; the body is guarded by
\* inv.sell_price !== null, and inv.tax_paid ?? 0 reads a null tax as 0.
RECURSIVE ClosedForEach(_, _, _)
ClosedForEach(closed, i, acc) ==
    IF i > Len(closed) THEN acc
    ELSE LET inv == closed[i]
         IN  ClosedForEach(closed, i + 1,
                IF inv.sell_price # Null
                THEN LET purchaseValue == inv.purchase_price * inv.quantity
                         sellValue == ValueOf(inv.sell_price) * inv.quantity
                     IN  [acc EXCEPT
                            !.realisedProfit = @ + (sellValue - purchaseValue),
                            !.totalTaxPaid = @ + (IF inv.tax_paid = Null THEN 0
                                                   ELSE ValueOf(inv.tax_paid))]
                ELSE acc)

ZeroStats ==
    [totalValue |-> 0, unrealisedProfit |-> 0, realisedProfit |-> 0, totalTaxPaid |-> 0]

\* Slips of summaryStats: the open loop run over every record, and the
\* realised profit reduced by the stored tax.
SummaryStats_AllRecordsValued(open, closed, prices) ==
    ClosedForEach(closed, 1, OpenForEach(open \o closed, prices, 1, ZeroStats))

SummaryStats_TaxNetted(open, closed, prices) ==
    LET st == ClosedForEach(closed, 1, OpenForEach(open, prices, 1, ZeroStats))
    IN  [st EXCEPT !.realisedProfit = @ - st.totalTaxPaid]

SummaryStats(open, closed, prices) ==
    ClosedForEach(closed, 1, OpenForEach(open, prices, 1, ZeroStats))

\* ---- inputs of the valuation specification
MaxInvestments == 2

ItemIds == { 1, 2 }
\* (quantity, purchase_price) of a record
Lots == { <<1, 3>>, <<2, 5>> }
SellPrices == { Null, Some(0), Some(4) }
TaxesPaid == { Null, Some(1) }
HighPrices == { Null, Some(7) }

\* The records of the valuation runs.  The nullness of tax_paid and sell_date
\* is drawn independently of sell_price: the store is outside the program
\* and the page reads whatever rows it returns.
ValuationRows ==
    { <<item, lot, sell, tax>> :
        item \in ItemIds, lot \in Lots, sell \in SellPrices, tax \in TaxesPaid }

RowToInvestment(id, row) ==
    Investment(id, row[1], row[2][1], row[2][2], 0, row[3],
               IF row[4] = Null THEN Null ELSE Some(0), row[4])

\* Every list of at most MaxInvestments rows; the record at index i has id i.
RowLists(rows, n) == UNION { [1 .. k -> rows] : k \in 0 .. n }

ValuationPortfolios ==
    { [i \in DOMAIN rs |-> RowToInvestment(i, rs[i])] :
        rs \in RowLists(ValuationRows, MaxInvestments) }

\* latestPrices: item id -> LatestPrice, for any subset of the items.
LatestPriceMaps ==
    UNION { [ids -> { [high |-> h] : h \in HighPrices }] : ids \in SUBSET ItemIds }

InitValuation ==
    /\ IdleTax
    /\ IdleParse
    /\ IdleHistory
    /\ IdleApp
    /\ investments \in ValuationPortfolios
    /\ latestPrices \in LatestPriceMaps
    /\ openPositions = <<>> /\ closedPositions = <<>> /\ summaryStats = NoReturn

\* One render of PortfolioPage: both useMemo values are computed from the
\* current props.
PortfolioPageRender ==
    /\ summaryStats = NoReturn
    /\ LET parts == Partition(investments)
       IN  /\ openPositions' = parts.openPositions
           /\ closedPositions' = parts.closedPositions
           /\ summaryStats' = Returned(SummaryStats(parts.openPositions,
                                                   parts.closedPositions,
                                                   latestPrices))
    /\ UNCHANGED <<taxVars, propVars, historyVars, appVars, parseVars>>

NextValuation == PortfolioPageRender

SpecValuation == InitValuation /\ [][NextValuation]_vars

Rendered == summaryStats # NoReturn
Stats == summaryStats[1]

\* The sum of f[i] over the indices i of S.
RECURSIVE SumOver(_, _)
SumOver(S, f) ==
    IF S = {} THEN 0
    ELSE LET i == CHOOSE x \in S : TRUE
         IN  f[i] + SumOver(S \ {i}, f)

OpenIdx == { i \in DOMAIN investments : investments[i].sell_price = Null }
ClosedIdx == { i \in DOMAIN investments : investments[i].sell_price # Null }
InBucket(bucket, inv) == \E j \in DOMAIN bucket : bucket[j] = inv

\* C5: the open/closed partition is total and disjoint: every record is in
\* exactly one bucket, in openPositions exactly when its sell_price is null,
\* and the two lengths add up to the number of records.
Claim5_PartitionTotalDisjoint ==
    Rendered =>
        /\ Len(openPositions) + Len(closedPositions) = Len(investments)
        /\ \A i \in DOMAIN investments :
              /\ InBucket(openPositions, investments[i]) <=> investments[i].sell_price = Null
              /\ InBucket(closedPositions, investments[i]) <=> investments[i].sell_price # Null

\* C5 witness: a rendered portfolio with one record in each bucket, the
\* closed one sold at price 0 and the open one carrying a non-null tax_paid.
Witness5_BothBuckets ==
    /\ Rendered
    /\ Len(openPositions) = 1 /\ Len(closedPositions) = 1
    /\ closedPositions[1].sell_price = Some(0)
    /\ openPositions[1].tax_paid # Null

High(item_id) ==
    IF item_id \in DOMAIN latestPrices /\ latestPrices[item_id].high # Null
    THEN latestPrices[item_id].high[1] ELSE 0

\* C6: totalValue is the sum over the open positions of high * quantity and
\* unrealisedProfit the sum over the open positions of
\* high * quantity - purchase_price * quantity, with high taken as 0 when the
\* item has no latest price or a null high; closed positions add nothing.
Claim6_OpenTotals ==
    Rendered =>
        /\ Stats.totalValue =
              SumOver(OpenIdx, [i \in OpenIdx |->
                  High(investments[i].item_id) * investments[i].quantity])
        /\ Stats.unrealisedProfit =
              SumOver(OpenIdx, [i \in OpenIdx |->
                  High(investments[i].item_id) * investments[i].quantity
                    - investments[i].purchase_price * investments[i].quantity])

\* C6 witness: a rendered portfolio of one open position whose item has no
\* usable latest price and one closed position whose item has one; the value
\* is 0 and the unrealised profit is minus the purchase value.
Witness6_OpenWithoutPrice ==
    /\ Rendered
    /\ \E i \in OpenIdx, j \in ClosedIdx :
          /\ OpenIdx = {i} /\ ClosedIdx = {j}
          /\ High(investments[i].item_id) = 0
          /\ High(investments[j].item_id) > 0
          /\ Stats.totalValue = 0
          /\ Stats.unrealisedProfit =
                 0 - investments[i].purchase_price * investments[i].quantity

\* C7: realisedProfit is the sum over the closed positions of
\* (sell_price - purchase_price) * quantity, the stored tax not subtracted,
\* and totalTaxPaid the sum over the closed positions of tax_paid with null
\* as 0; open positions add to neither.
Claim7_ClosedTotals ==
    Rendered =>
        /\ Stats.realisedProfit =
              SumOver(ClosedIdx, [i \in ClosedIdx |->
                  (investments[i].sell_price[1] - investments[i].purchase_price)
                      * investments[i].quantity])
        /\ Stats.totalTaxPaid =
              SumOver(ClosedIdx, [i \in ClosedIdx |->
                  IF investments[i].tax_paid = Null THEN 0
                  ELSE investments[i].tax_paid[1]])

\* C7 witness: a rendered portfolio of one closed position with a stored tax
\* and one open position that carries a non-null tax_paid as well.
Witness7_ClosedWithTax ==
    /\ Rendered
    /\ \E i \in ClosedIdx, j \in OpenIdx :
          /\ investments[i].tax_paid # Null
          /\ investments[j].tax_paid # Null
          /\ Stats.totalTaxPaid = investments[i].tax_paid[1]
          /\ Stats.realisedProfit # 0

(***************************************************************************)
(* components/PortfolioPage.tsx : calculateHistory                         *)
(*                                                                         *)
(* A Date is its epoch time in milliseconds, a TimeseriesData timestamp is *)
(* in seconds.  The calendar is scaled down: a day has DaySeconds seconds  *)
(* and a month MonthDays days.  Local time is UTC plus timezoneOffset,     *)
(* with no daylight saving.                                                *)
(***************************************************************************)
MS_PER_SECOND == 1000
DaySeconds == 4
MonthDays == 1
DayMs == DaySeconds * MS_PER_SECOND

\* d.setHours(0,0,0,0): the start of the local calendar day of d
SetHoursZero(t, tz) == t - ((t + tz) % DayMs)
\* dt.setDate(dt.getDate() + n)
AddDays(t, n) == t + n * DayMs
\* now.setMonth(now.getMonth() + n)
AddMonths(t, n) == AddDays(t, n * MonthDays)
\* date.toISOString().split('T')[0]: the UTC calendar date, as a day number
IsoDate(t) == t \div DayMs

\* investments.filter(inv => inv.sell_price === null)
IsOpenForHistory(inv) == inv.sell_price = Null
OpenPositionsForHistory(invs) == SelectSeq(invs, IsOpenForHistory)

\* [...new Set(openPositionsForHistory.map(inv => inv.item_id))]: the
\* distinct item ids in the order of their first occurrence
RECURSIVE DistinctItemIds(_, _, _)
DistinctItemIds(open, i, acc) ==
    IF i > Len(open) THEN acc
    ELSE DistinctItemIds(open, i + 1,
            IF \E j \in DOMAIN acc : acc[j] = open[i].item_id
            THEN acc ELSE Append(acc, open[i].item_id))

HistoryItemIds(invs) == DistinctItemIds(OpenPositionsForHistory(invs), 1, <<>>)

\* cleanedData: map to {timestamp, price: avgHighPrice}, drop null prices
HasPrice(d) == d.price # Null
CleanedData(series) ==
    SelectSeq([k \in DOMAIN series |->
                  [timestamp |-> series[k].timestamp, price |-> series[k].avgHighPrice]],
              HasPrice)

\* cleanedData.sort((a, b) => a.timestamp - b.timestamp): a stable sort
RECURSIVE InsertByTimestamp(_, _)
InsertByTimestamp(sorted, p) ==
    IF sorted = <<>> THEN <<p>>
    ELSE IF Head(sorted).timestamp <= p.timestamp
         THEN <<Head(sorted)>> \o InsertByTimestamp(Tail(sorted), p)
         ELSE <<p>> \o sorted

RECURSIVE SortByTimestamp(_)
SortByTimestamp(data) ==
    IF data = <<>> THEN <<>>
    ELSE InsertByTimestamp(SortByTimestamp(SubSeq(data, 1, Len(data) - 1)),
                           data[Len(data)])

\* A slip: the cleaned data stored as fetched, without the sort.
SortedCleanedData_Unsorted(series) == CleanedData(series)

SortedCleanedData(series) == SortByTimestamp(CleanedData(series))

IsFulfilled(res) == res.status = "fulfilled"

\* A slip: the fulfilled results numbered among themselves, so that after a
\* rejected fetch every later series is filed under the item before it.
PriceDataMap_FulfilledOrder(itemIds, responses) ==
    LET fulfilledOnly == SelectSeq(responses, IsFulfilled)
    IN  [ id \in { itemIds[k] : k \in DOMAIN fulfilledOnly } |->
            LET k == CHOOSE k \in DOMAIN fulfilledOnly : itemIds[k] = id
            IN  SortedCleanedData(fulfilledOnly[k].value) ]

\* priceDataMap: one entry for each item whose fetch was fulfilled
PriceDataMap(itemIds, responses) ==
    LET fulfilled == { k \in DOMAIN itemIds : responses[k].status = "fulfilled" }
    IN  [ id \in { itemIds[k] : k \in fulfilled } |->
            LET k == CHOOSE k \in fulfilled : itemIds[k] = id
            IN  SortedCleanedData(responses[k].value) ]

\* The reduce of case 'ALL': the earliest purchase_date of all investments,
\* starting from new Date()
RECURSIVE FirstPurchaseReduce(_, _, _)
FirstPurchaseReduce(invs, i, earliest) ==
    IF i > Len(invs) THEN earliest
    ELSE LET d == invs[i].purchase_date
         IN  FirstPurchaseReduce(invs, i + 1, IF d < earliest THEN d ELSE earliest)

\* A slip: case 'ALL' falling back to the one-year window.
GetStartDate_AllAsYear(range, invs, nw) ==
    CASE range = "1M" -> AddMonths(nw, -1)
      [] range = "3M" -> AddMonths(nw, -3)
      [] range = "1Y" -> AddMonths(nw, -12)
      [] range = "ALL" -> AddMonths(nw, -12)

GetStartDate(range, invs, nw) ==
    CASE range = "1M" -> AddMonths(nw, -1)
      [] range = "3M" -> AddMonths(nw, -3)
      [] range = "1Y" -> AddMonths(nw, -12)
      [] range = "ALL" -> FirstPurchaseReduce(invs, 1, nw)

\* for (let dt = new Date(startDate); dt <= endDate; dt.setDate(dt.getDate() + 1))
RECURSIVE DateArrayFrom(_, _)
DateArrayFrom(dt, endDate) ==
    IF dt <= endDate THEN <<dt>> \o DateArrayFrom(AddDays(dt, 1), endDate)
    ELSE <<>>

DateArray(range, invs, nw, tz) ==
    DateArrayFrom(SetHoursZero(GetStartDate(range, invs, nw), tz), nw)

\* [...itemPriceHistory].reverse().find(p => p.timestamp * 1000 <= dateTimestamp):
\* the last point of the array that is not later than the date, or null
RECURSIVE FindLast(_, _, _)
FindLast(itemPriceHistory, i, dateTimestamp) ==
    IF i = 0 THEN Null
    ELSE IF itemPriceHistory[i].timestamp * MS_PER_SECOND <= dateTimestamp
         THEN Some(itemPriceHistory[i])
         ELSE FindLast(itemPriceHistory, i - 1, dateTimestamp)

\* A slip: no fallback to the purchase price; a position without a price
\* point is valued at 0.
PriceOnDate_NoFallback(inv, priceDataMap, dateTimestamp) ==
    IF inv.item_id \in DOMAIN priceDataMap /\ Len(priceDataMap[inv.item_id]) > 0
    THEN LET pricePoint == FindLast(priceDataMap[inv.item_id],
                                    Len(priceDataMap[inv.item_id]), dateTimestamp)
         IN  IF pricePoint # Null THEN ValueOf(ValueOf(pricePoint).price) ELSE 0
    ELSE 0

\* priceOnDate of one position on one date
PriceOnDate(inv, priceDataMap, dateTimestamp) ==
    IF inv.item_id \in DOMAIN priceDataMap /\ Len(priceDataMap[inv.item_id]) > 0
    THEN LET pricePoint == FindLast(priceDataMap[inv.item_id],
                                    Len(priceDataMap[inv.item_id]), dateTimestamp)
         IN  IF pricePoint # Null THEN ValueOf(ValueOf(pricePoint).price)
             ELSE inv.purchase_price
    ELSE inv.purchase_price

\* openPositionsForHistory.forEach(...) for one date
RECURSIVE DailyValue(_, _, _, _, _, _)
DailyValue(open, priceDataMap, dateTimestamp, tz, i, dailyValue) ==
    IF i > Len(open) THEN dailyValue
    ELSE LET inv == open[i]
             purchaseDate == SetHoursZero(inv.purchase_date, tz)
         IN  DailyValue(open, priceDataMap, dateTimestamp, tz, i + 1,
                IF purchaseDate <= dateTimestamp
                THEN dailyValue + inv.quantity * PriceOnDate(inv, priceDataMap, dateTimestamp)
                ELSE dailyValue)

\* The part of calculateHistory after the await: the history it hands to
\* setPortfolioHistory, for the settled responses of its fetches.
CalculateHistory(invs, range, responses, nw, tz) ==
    LET open == OpenPositionsForHistory(invs)
        priceDataMap == PriceDataMap(HistoryItemIds(invs), responses)
        dateArray == DateArray(range, invs, nw, tz)
    IN  [ k \in DOMAIN dateArray |->
            [ date |-> IsoDate(dateArray[k]),
              value |-> DailyValue(open, priceDataMap, dateArray[k], tz, 1, 0) ] ]

\* ---- inputs of the history specification
TimeRanges == { "1M", "3M", "1Y", "ALL" }

\* The clock reads two seconds past the UTC midnight of NowDay; every window
\* starts after the epoch.
NowDay == 12 * MonthDays + 3
BaseSeconds == NowDay * DaySeconds
BaseMs == BaseSeconds * MS_PER_SECOND
NowTimes == { BaseMs + 2 * MS_PER_SECOND }
TimezoneOffsets == { -MS_PER_SECOND, 0, MS_PER_SECOND }

\* Purchases, in seconds before BaseMs: on the last day, inside the
\* one-month window, and before it.
PurchaseAges == { 1, DaySeconds + 1, 2 * DaySeconds + 1 }
\* (quantity, purchase_price) of the positions of an item
HistoryLot(item) == IF item = 1 THEN <<2, 5>> ELSE <<3, 7>>

\* Open positions of both items and closed positions of item 1.
HistoryRows ==
    { <<item, age, sell>> \in ItemIds \X PurchaseAges \X { Null, Some(4) } :
        sell = Null \/ item = 1 }

HistoryRowToInvestment(id, row) ==
    Investment(id, row[1], HistoryLot(row[1])[1], HistoryLot(row[1])[2],
               BaseMs - row[2] * MS_PER_SECOND, row[3],
               IF row[3] = Null THEN Null ELSE Some(BaseMs),
               IF row[3] = Null THEN Null ELSE Some(0))

HistoryPortfolios ==
    { [i \in DOMAIN rs |-> HistoryRowToInvestment(i, rs[i])] :
        rs \in RowLists(HistoryRows, MaxInvestments) }

\* A TimeseriesData point (timestamp in seconds, avgHighPrice nullable),
\* age seconds before BaseSeconds.
Point(age, price) == [timestamp |-> BaseSeconds - age, avgHighPrice |-> price]

\* The series a fulfilled fetch may deliver: none; two priced points, the
\* newer first; an old priced point followed by two points without a
\* trade; one point one second after BaseSeconds.
SeriesSamples ==
    { <<>>,
      << Point(1, Some(11)), Point(DaySeconds + 2, Some(9)) >>,
      << Point(2 * DaySeconds + 2, Some(8)), Point(DaySeconds + 2, Null), Point(1, Null) >>,
      << Point(-1, Some(12)) >> }

\* The outcomes of Promise.allSettled for one fetch
SettledResults ==
    { [status |-> "rejected", value |-> <<>>] }
        \cup { [status |-> "fulfilled", value |-> sr] : sr \in SeriesSamples }

\* The state in which calculateHistory, started by the effect for the
\* selected timeRange, has run up to its await (or to its early return when
\* there is no open position).  The range, the portfolio, the clock and the
\* time zone are the inputs of the computation.
InitHistory ==
    /\ IdleTax
    /\ IdleParse
    /\ IdleApp
    /\ investments \in HistoryPortfolios
    /\ latestPrices = <<>>
    /\ openPositions = <<>> /\ closedPositions = <<>> /\ summaryStats = NoReturn
    /\ now \in NowTimes
    /\ timezoneOffset \in TimezoneOffsets
    /\ timeRange \in TimeRanges
    /\ portfolioHistory = <<>>
    /\ timeseriesResponses = <<>>
    /\ IF OpenPositionsForHistory(investments) = <<>>
       THEN isHistoryLoading = FALSE /\ pendingCalcs = <<>> /\ calcTimeRange = timeRange
       ELSE isHistoryLoading = TRUE /\ pendingCalcs = <<timeRange>> /\ calcTimeRange = "none"

\* Promise.allSettled resolves for the k-th waiting invocation: it builds
\* priceDataMap and the history and calls setPortfolioHistory(history) and
\* setIsHistoryLoading(false).
CalculateHistorySettled(k, responses) ==
    /\ k \in DOMAIN pendingCalcs
    /\ portfolioHistory' = CalculateHistory(investments, pendingCalcs[k], responses,
                                            now, timezoneOffset)
    /\ isHistoryLoading' = FALSE
    /\ calcTimeRange' = pendingCalcs[k]
    /\ timeseriesResponses' = responses
    /\ pendingCalcs' = [j \in 1 .. Len(pendingCalcs) - 1 |->
                           IF j < k THEN pendingCalcs[j] ELSE pendingCalcs[j + 1]]
    /\ UNCHANGED <<taxVars, propVars, memoVars, clockVars, timeRange, appVars, parseVars>>

NextHistory ==
    \E k \in DOMAIN pendingCalcs :
        \E responses \in [1 .. Len(HistoryItemIds(investments)) -> SettledResults] :
            CalculateHistorySettled(k, responses)

SpecHistory == InitHistory /\ [][NextHistory]_vars

\* An invocation of calculateHistory has written portfolioHistory.
Calculated == calcTimeRange # "none"

\* The portfolio is one open position and nothing else.
SinglePosition == Len(investments) = 1 /\ investments[1].sell_price = Null

\* The settled response of the fetch for an item of the open positions.
ResponseFor(item) ==
    LET ids == HistoryItemIds(investments)
    IN  timeseriesResponses[CHOOSE k \in DOMAIN ids : ids[k] = item]

\* The points of the item's series that carry a price and are not later than
\* the instant d (none when the fetch was rejected).
PricedPointsUpTo(item, d) ==
    LET r == ResponseFor(item)
    IN  IF r.status # "fulfilled" THEN {}
        ELSE { r.value[k] : k \in { k \in DOMAIN r.value :
                   /\ r.value[k].avgHighPrice # Null
                   /\ r.value[k].timestamp * 1000 <= d } }

\* No priced point of the item at any time.
NoPricePoint(item) ==
    LET r == ResponseFor(item)
    IN  r.status = "rejected"
        \/ \A k \in DOMAIN r.value : r.value[k].avgHighPrice = Null

\* The local calendar day of an instant, as a day number.
LocalDay(t) == (t + timezoneOffset) \div DayMs

\* C8: for a portfolio of a single open position purchased on day D with
\* quantity Q and purchase price P, when no priced historical point is
\* available for its item, every output entry whose day is on or after D has
\* value Q * P, in every lookback window.  D is read both as the UTC date of
\* purchase_date and as its local calendar day.
Claim8_SingleWithoutSeries ==
    (Calculated /\ SinglePosition /\ NoPricePoint(investments[1].item_id)) =>
        \A k \in DOMAIN portfolioHistory :
            ( \/ portfolioHistory[k].date >= IsoDate(investments[1].purchase_date)
              \/ portfolioHistory[k].date >= LocalDay(investments[1].purchase_date) )
            => portfolioHistory[k].value =
                   investments[1].quantity * investments[1].purchase_price

\* C8 witness: the three-month history of a single position whose fetch was
\* rejected has been written; it holds a day before the purchase (value 0)
\* and later days at Q * P.
Witness8_RejectedFetch ==
    /\ Calculated /\ SinglePosition /\ calcTimeRange = "3M"
    /\ timeseriesResponses[1].status = "rejected"
    /\ portfolioHistory[1].date < IsoDate(investments[1].purchase_date)
    /\ portfolioHistory[1].value = 0
    /\ \E k \in DOMAIN portfolioHistory :
          /\ portfolioHistory[k].date >= IsoDate(investments[1].purchase_date)
          /\ portfolioHistory[k].value =
                 investments[1].quantity * investments[1].purchase_price

\* The date string of the entry that stands for the local calendar day of
\* the purchase: the earliest reading of "day D" in the output's terms.
PurchaseEntryDate == IsoDate(SetHoursZero(investments[1].purchase_date, timezoneOffset))

EntryDates == DateArray(calcTimeRange, investments, now, timezoneOffset)

\* The open positions purchased on or before the instant d, the purchase date
\* normalised to local midnight.
PurchasedBy(d) ==
    { i \in OpenIdx : SetHoursZero(investments[i].purchase_date, timezoneOffset) <= d }

\* The unit price of position i on the instant d: the price of the latest
\* priced point not later than d, else the purchase price.
UnitPriceOn(i, d) ==
    LET pts == PricedPointsUpTo(investments[i].item_id, d)
    IN  IF pts = {} THEN investments[i].purchase_price
        ELSE (CHOOSE p \in pts : \A q \in pts : q.timestamp <= p.timestamp).avgHighPrice[1]

\* C10: for every output day d, the value is the sum, over exactly the open
\* positions purchased on or before d, of quantity times the price of the
\* item's latest non-null point with timestamp <= d, or the position's
\* purchase_price when there is no such point.
Claim10_DailyValue ==
    (Calculated /\ OpenIdx # {}) =>
        /\ Len(portfolioHistory) = Len(EntryDates)
        /\ \A k \in DOMAIN portfolioHistory :
              portfolioHistory[k].value =
                  SumOver(PurchasedBy(EntryDates[k]),
                          [i \in PurchasedBy(EntryDates[k]) |->
                              investments[i].quantity * UnitPriceOn(i, EntryDates[k])])

\* C10 witness: a written history with a day on which one open position is
\* valued at a series price while another has not been purchased yet, and a
\* later day on which a position is valued at a newer point.
Witness10_SeriesPriceAndLatePurchase ==
    /\ Calculated
    /\ \E k \in DOMAIN portfolioHistory, i \in OpenIdx, j \in OpenIdx :
          /\ PurchasedBy(EntryDates[k]) = {i} /\ j # i
          /\ PricedPointsUpTo(investments[i].item_id, EntryDates[k]) # {}
          /\ portfolioHistory[k].value = investments[i].quantity * 9
          /\ \E m \in DOMAIN portfolioHistory :
                /\ m > k
                /\ UnitPriceOn(i, EntryDates[m]) = 11

\* The items of the open positions whose fetch was rejected.
FailedItems ==
    LET ids == HistoryItemIds(investments)
    IN  { ids[k] : k \in { k \in DOMAIN ids : timeseriesResponses[k].status = "rejected" } }

\* The open positions of failed items that were purchased by the instant d.
FailedPurchasedBy(d) ==
    { i \in PurchasedBy(d) : investments[i].item_id \in FailedItems }

\* The portfolio in which the positions of the failed items hold nothing, and
\* the responses in which every rejected fetch delivered the series sr
\* instead: the run in which no fetch failed, as far as the other items go.
WithoutFailedHoldings ==
    [ i \in DOMAIN investments |->
        IF IsOpenForHistory(investments[i]) /\ investments[i].item_id \in FailedItems
        THEN [ investments[i] EXCEPT !.quantity = 0 ]
        ELSE investments[i] ]

\* The series put in the place of a rejected fetch: none, and two priced
\* points.
ReplacementSeries ==
    { sr \in SeriesSamples : sr = <<>> \/ Len(sr) = 2 }

AllFulfilled(sr) ==
    [ k \in DOMAIN timeseriesResponses |->
        IF timeseriesResponses[k].status = "rejected"
        THEN [ status |-> "fulfilled", value |-> sr ]
        ELSE timeseriesResponses[k] ]

\* C11: when the fetches of some items are rejected, the computation still
\* completes (a history of one entry per day is written and, once no
\* invocation waits, isHistoryLoading is false), and every entry is the sum
\* of quantity * purchase_price over the contributing positions of the
\* failed items and of what the positions of the other items are worth in
\* the run where no fetch failed, whatever the failed fetches deliver there.
Claim11_PartialFailure ==
    (Calculated /\ OpenIdx # {} /\ FailedItems # {}) =>
        /\ pendingCalcs = <<>> => ~isHistoryLoading
        /\ Len(portfolioHistory) = Len(EntryDates)
        /\ \A sr \in ReplacementSeries :
              LET others == CalculateHistory(WithoutFailedHoldings, calcTimeRange,
                                             AllFulfilled(sr), now, timezoneOffset)
              IN  \A k \in DOMAIN portfolioHistory :
                      portfolioHistory[k].value =
                          others[k].value
                          + SumOver(FailedPurchasedBy(EntryDates[k]),
                                    [ i \in FailedPurchasedBy(EntryDates[k]) |->
                                        investments[i].quantity
                                            * investments[i].purchase_price ])

\* C11 witness: a written history of two items, the fetch of the first
\* rejected and that of the second fulfilled with a priced point, with a day
\* to which positions of both items contribute.
Witness11_OneRejectedOneFulfilled ==
    /\ Calculated /\ ~isHistoryLoading
    /\ Len(timeseriesResponses) = 2
    /\ timeseriesResponses[1].status = "rejected"
    /\ timeseriesResponses[2].status = "fulfilled"
    /\ \E k \in DOMAIN portfolioHistory :
          /\ FailedPurchasedBy(EntryDates[k]) # {}
          /\ \E i \in PurchasedBy(EntryDates[k]) :
                /\ investments[i].item_id \notin FailedItems
                /\ PricedPointsUpTo(investments[i].item_id, EntryDates[k]) # {}

\* C12: whenever an open position exists, the written history holds exactly
\* one entry per calendar day from the day of the window start through
\* today, both included, in strictly ascending order, no day missing and
\* none repeated.  The days are the user's calendar days; an entry's day is
\* the date it carries.
Claim12_OneEntryPerDay ==
    (Calculated /\ OpenIdx # {}) =>
        LET first == LocalDay(GetStartDate(calcTimeRange, investments, now))
            today == LocalDay(now)
        IN  /\ Len(portfolioHistory) = today - first + 1
            /\ \A k \in DOMAIN portfolioHistory :
                  portfolioHistory[k].date = first + (k - 1)

(***************************************************************************)
(* Form fields.  The text of an input is a sequence of one-character       *)
(* strings; parseInt and parseShorthandPrice are computed on it.  A number *)
(* result is the one-element sequence of its value, NaN the empty one.     *)
(***************************************************************************)
NaN == <<>>
IsNaN(x) == x = NaN

Digits == << "0", "1", "2", "3", "4", "5", "6", "7", "8", "9" >>
IsDigit(c) == \E d \in DOMAIN Digits : Digits[d] = c
DigitValue(c) == (CHOOSE d \in DOMAIN Digits : Digits[d] = c) - 1

\* value.toLowerCase(), for the letters a form field of the model may hold
ToLowerCase(s) ==
    [i \in DOMAIN s |-> IF s[i] = "K" THEN "k" ELSE IF s[i] = "M" THEN "m" ELSE s[i]]

RECURSIVE TrimStart(_)
TrimStart(s) ==
    IF s # <<>> /\ Head(s) = " " THEN TrimStart(Tail(s)) ELSE s

RECURSIVE TrimEnd(_)
TrimEnd(s) ==
    IF s # <<>> /\ s[Len(s)] = " " THEN TrimEnd(SubSeq(s, 1, Len(s) - 1)) ELSE s

\* value.trim()
Trim(s) == TrimEnd(TrimStart(s))

\* s.endsWith(c)
EndsWith(s, c) == s # <<>> /\ s[Len(s)] = c

\* The length of the longest run of digits of s that starts at index i.
RECURSIVE DigitRun(_, _)
DigitRun(s, i) ==
    IF i <= Len(s) /\ IsDigit(s[i]) THEN 1 + DigitRun(s, i + 1) ELSE 0

\* The value of the n decimal digits of s that start at index i.
RECURSIVE DigitsValue(_, _, _, _)
DigitsValue(s, i, n, acc) ==
    IF n = 0 THEN acc
    ELSE DigitsValue(s, i + 1, n - 1, acc * 10 + DigitValue(s[i]))

RECURSIVE Pow10(_)
Pow10(n) == IF n = 0 THEN 1 ELSE 10 * Pow10(n - 1)

\* parseInt(text, 10): leading white space, an optional sign, then the
\* longest run of digits; NaN when there is no digit.
parseInt(text) ==
    LET s == TrimStart(text)
        signed == s # <<>> /\ Head(s) \in { "-", "+" }
        first == IF signed THEN 2 ELSE 1
        n == DigitRun(s, first)
        magnitude == DigitsValue(s, first, n, 0)
    IN  IF n = 0 THEN NaN
        ELSE IF signed /\ Head(s) = "-" THEN << 0 - magnitude >>
        ELSE << magnitude >>

\* parseFloat(numPart) for decimal literals without an exponent: leading
\* white space, an optional sign, digits, an optional fraction; the result
\* is numerator / 10^scale, or NaN when no digit starts the number.
parseFloat(numPart) ==
    LET s == TrimStart(numPart)
        signed == s # <<>> /\ Head(s) \in { "-", "+" }
        first == IF signed THEN 2 ELSE 1
        n == DigitRun(s, first)
        dot == first + n
        hasDot == dot <= Len(s) /\ s[dot] = "."
        f == IF hasDot THEN DigitRun(s, dot + 1) ELSE 0
        magnitude == DigitsValue(s, dot + 1, f, DigitsValue(s, first, n, 0))
    IN  IF n + f = 0 THEN NaN
        ELSE << [ numerator |-> IF signed /\ Head(s) = "-" THEN 0 - magnitude
                                ELSE magnitude,
                  scale |-> f ] >>

\* numPart: sanitizedValue.replace(/,/g, '').replace(/[km]$/, '')
IsNotComma(c) == c # ","
\* A slip: the commas stay in the numeric part.
NumPart_KeepCommas(sanitizedValue) ==
    IF EndsWith(sanitizedValue, "k") \/ EndsWith(sanitizedValue, "m")
    THEN SubSeq(sanitizedValue, 1, Len(sanitizedValue) - 1)
    ELSE sanitizedValue

NumPart(sanitizedValue) ==
    LET noCommas == SelectSeq(sanitizedValue, IsNotComma)
    IN  IF EndsWith(noCommas, "k") \/ EndsWith(noCommas, "m")
        THEN SubSeq(noCommas, 1, Len(noCommas) - 1)
        ELSE noCommas

\* parseShorthandPrice(value); Math.floor(number * multiplier) is the floor
\* of numerator * multiplier / 10^scale.
parseShorthandPrice(value) ==
    IF value = <<>> THEN NaN
    ELSE LET sanitizedValue == Trim(ToLowerCase(value))
             multiplier == IF EndsWith(sanitizedValue, "m") THEN 1000000
                           ELSE IF EndsWith(sanitizedValue, "k") THEN 1000
                           ELSE 1
             numPart == NumPart(sanitizedValue)
             number == parseFloat(numPart)
         IN  IF Trim(numPart) = <<>> THEN NaN
             ELSE IF IsNaN(number) THEN NaN
             ELSE << (number[1].numerator * multiplier) \div Pow10(number[1].scale) >>

\* n.toString() of a non-negative integer
RECURSIVE NumberToString(_)
NumberToString(n) ==
    IF n < 10 THEN << Digits[n + 1] >>
    ELSE NumberToString(n \div 10) \o << Digits[(n % 10) + 1] >>

(***************************************************************************)
(* App.tsx, AddInvestmentModal, PortfolioPage and SellInvestmentModal:     *)
(* the session, the views and modals, and the store mutations.             *)
(*                                                                         *)
(* A handler runs to its first await in one step; the part after the await *)
(* is the step in which the store request settles.  The store applies a    *)
(* request and answers it in that same step.  A component's state exists   *)
(* while the component is mounted; a state setter of an unmounted          *)
(* component does nothing.                                                 *)
(***************************************************************************)
\* The item catalog (items): id -> Item, with the fields the handlers read.
Items ==
    [ id \in ItemIds |->
        IF id = 1 THEN [ id |-> 1, name |-> "Rune platebody", value |-> 60 ]
        ELSE [ id |-> 2, name |-> "Old school bonds", value |-> 60 ] ]

\* latestPrices of the App runs: item 1 has traded, item 2 has no entry.
AppLatestPrices == [ id \in { 1 } |-> [ high |-> Some(60), low |-> Some(60) ] ]

\* The session of the one user of the model, and the profiles getProfile
\* may deliver: none, one without a username, one with a username.
UserSession == Some("user")
Profiles == { Null, Some([ username |-> Null ]), Some([ username |-> Some("name") ]) }

\* The day the date inputs start at: new Date().toISOString().split('T')[0]
Today == NowDay
\* new Date(date).toISOString() of a date input's value, as epoch ms
DateToISOString(day) == day * DayMs

\* A store request that has not settled.  owner is the component whose
\* handler awaits it, alive whether that component is still mounted, and
\* pageAlive whether the PortfolioPage whose setters the handler was given
\* (the sell modal's onClose) is.
Request(kind, owner, itemId, investmentId, data) ==
    [ kind |-> kind, owner |-> owner, alive |-> TRUE, pageAlive |-> TRUE,
      itemId |-> itemId, investmentId |-> investmentId, data |-> data ]

\* The bag b with one copy of e added, or removed.
BagAdd(b, e) == b (+) SetToBag({ e })
BagRemove(b, e) == b (-) SetToBag({ e })

\* The bag of the f-images of the elements of b.
BagMap(b, f(_)) ==
    LET S == BagToSet(b)
        T == { f(r) : r \in S }
    IN  [ t \in T |->
            LET pre == { r \in S : f(r) = t }
            IN  SumOver(pre, [ r \in pre |-> CopiesIn(r, b) ]) ]

\* The state of the App and of its mounted components, as one record.
Cur ==
    [ session |-> session, profile |-> profile, profilePending |-> profilePending,
      currentView |-> currentView, selectedItem |-> selectedItem,
      isAuthModalOpen |-> isAuthModalOpen, isProfileModalOpen |-> isProfileModalOpen,
      watchlist |-> watchlist, investments |-> investments,
      isAddInvestmentModalOpen |-> isAddInvestmentModalOpen,
      investmentModalItem |-> investmentModalItem,
      addModal |-> addModal, portfolioPage |-> portfolioPage, sellModal |-> sellModal,
      inflight |-> inflight, storeInvestments |-> storeInvestments,
      storeWatchlist |-> storeWatchlist, nextId |-> nextId,
      error |-> error, latestPrices |-> latestPrices,
      items |-> items, isLoading |-> isLoading, isItemLoading |-> isItemLoading,
      timeseries |-> timeseries, itemView |-> itemView,
      fetches |-> fetches, fetchCount |-> fetchCount ]

\* useState initial values of AddInvestmentModal
NewAddModal(item_id) ==
    [ quantity |-> << "1" >>,
      price |-> NumberToString(
                    IF item_id \in DOMAIN latestPrices /\ latestPrices[item_id].high # Null
                    THEN ValueOf(latestPrices[item_id].high) ELSE Items[item_id].value),
      date |-> Some(Today), loading |-> FALSE, error |-> Null ]

\* useState initial values of SellInvestmentModal
NewSellModal(item_id) ==
    [ price |-> NumberToString(
                    IF item_id \in DOMAIN latestPrices /\ latestPrices[item_id].low # Null
                    THEN ValueOf(latestPrices[item_id].low) ELSE Items[item_id].value),
      date |-> Some(Today), loading |-> FALSE, error |-> Null ]

\* useState initial values of PortfolioPage (without the chart's state)
NewPortfolioPage ==
    [ investmentToSell |-> Null, investmentToDelete |-> Null, isDeleting |-> FALSE,
      isClearConfirmOpen |-> FALSE, isClearing |-> FALSE ]

\* useState initial values of ItemView
REFRESH_SECONDS == 300
NewItemView ==
    [ activeTimeView |-> "1W", isAutoRefreshEnabled |-> TRUE,
      countdown |-> REFRESH_SECONDS ]

\* renderContent and the JSX of App and PortfolioPage: which components are
\* mounted in the state st.  The loader stands in the place of every view
\* while isLoading (initialRoutingDone is set only once isLoading is false),
\* and the error message in the place of every view but the item view.
LoaderShown(st) == st.isLoading
ErrorRendered(st) == ~LoaderShown(st) /\ st.error # Null /\ st.currentView # "item"
ContentRendered(st) == ~LoaderShown(st) /\ ~ErrorRendered(st)
ItemMounted(st) ==
    ContentRendered(st) /\ st.currentView = "item" /\ st.selectedItem # Null
PageMounted(st) == ContentRendered(st) /\ st.currentView = "portfolio"
SellMounted(st) ==
    /\ PageMounted(st) /\ st.portfolioPage # Null
    /\ st.investments # <<>>
    /\ ValueOf(st.portfolioPage).investmentToSell # Null
    /\ ValueOf(ValueOf(st.portfolioPage).investmentToSell).item_id \in DOMAIN Items
AddMounted(st) == st.isAddInvestmentModalOpen /\ st.investmentModalItem # Null

\* The render that follows the state updates of a step: components mount
\* with their initial state and unmount, and the awaiting handlers of an
\* unmounted component lose their component.
Render(st) ==
    LET page == IF ~PageMounted(st) THEN Null
                ELSE IF st.portfolioPage = Null THEN Some(NewPortfolioPage)
                ELSE st.portfolioPage
        st1 == [ st EXCEPT !.portfolioPage = page ]
        sell == IF ~SellMounted(st1) THEN Null
                ELSE IF st.sellModal = Null
                     THEN Some(NewSellModal(ValueOf(ValueOf(page).investmentToSell).item_id))
                     ELSE st.sellModal
        add == IF ~AddMounted(st) THEN Null
               ELSE IF st.addModal = Null THEN Some(NewAddModal(ValueOf(st.investmentModalItem)))
               ELSE st.addModal
        view == IF ~ItemMounted(st) THEN Null
                ELSE IF st.itemView = Null THEN Some(NewItemView)
                ELSE st.itemView
        StillMounted(r) ==
            [ r EXCEPT !.alive =
                @ /\ CASE r.owner = "page" -> st.portfolioPage # Null /\ page # Null
                       [] r.owner = "sell" -> st.sellModal # Null /\ sell # Null
                       [] r.owner = "add" -> st.addModal # Null /\ add # Null
                       [] OTHER -> TRUE,
                       !.pageAlive =
                @ /\ (r.owner \in { "page", "sell" } => st.portfolioPage # Null /\ page # Null) ]
    IN  [ st1 EXCEPT !.sellModal = sell, !.addModal = add, !.itemView = view,
                     !.inflight = BagMap(st.inflight, StillMounted) ]

\* The step to the rendered state st.
Apply(st) ==
    \E n \in { Render(st) } :
        /\ session' = n.session /\ profile' = n.profile
        /\ profilePending' = n.profilePending
        /\ currentView' = n.currentView /\ selectedItem' = n.selectedItem
        /\ isAuthModalOpen' = n.isAuthModalOpen
        /\ isProfileModalOpen' = n.isProfileModalOpen
        /\ watchlist' = n.watchlist /\ investments' = n.investments
        /\ isAddInvestmentModalOpen' = n.isAddInvestmentModalOpen
        /\ investmentModalItem' = n.investmentModalItem
        /\ addModal' = n.addModal /\ portfolioPage' = n.portfolioPage
        /\ sellModal' = n.sellModal
        /\ inflight' = n.inflight /\ storeInvestments' = n.storeInvestments
        /\ storeWatchlist' = n.storeWatchlist /\ nextId' = n.nextId
        /\ error' = n.error /\ latestPrices' = n.latestPrices
        /\ items' = n.items /\ isLoading' = n.isLoading
        /\ isItemLoading' = n.isItemLoading /\ timeseries' = n.timeseries
        /\ itemView' = n.itemView
        /\ fetches' = n.fetches /\ fetchCount' = n.fetchCount
        /\ UNCHANGED <<taxVars, memoVars, historyVars, alerts, parseVars>>

\* The requests that may be awaited at once.
MaxInFlight == 2
CanIssue == BagCardinality(inflight) < MaxInFlight

\* The overlays of the JSX: each modal and dialog is a fixed full-screen
\* layer (className "fixed inset-0 ... z-40/z-50") over the page, so the
\* controls of the navigation, the item view and the portfolio lists take
\* clicks only while none is on screen.
AuthModalShown == isAuthModalOpen /\ session = Null
ProfileModalShown == isProfileModalOpen /\ profile # Null
DialogShown ==
    /\ portfolioPage # Null /\ investments # <<>>
    /\ \/ ValueOf(portfolioPage).investmentToDelete # Null
       \/ ValueOf(portfolioPage).isClearConfirmOpen
OverlayShown ==
    \/ AuthModalShown \/ ProfileModalShown
    \/ addModal # Null \/ sellModal # Null \/ DialogShown

\* prev.filter(id => id !== itemId) and [...prev, itemId]
WithoutItem(list, itemId) == SelectSeq(list, LAMBDA id : id # itemId)
Includes(list, itemId) == \E k \in DOMAIN list : list[k] = itemId

\* The rows a select delivers, as an array: the watchlist's item ids in
\* ascending order, the investments by purchase_date descending (newer id
\* first among equal dates).
RECURSIVE AscendingIds(_)
AscendingIds(ids) ==
    IF ids = {} THEN <<>>
    ELSE LET m == CHOOSE x \in ids : \A y \in ids : x <= y
         IN  << m >> \o AscendingIds(ids \ { m })

RECURSIVE ByPurchaseDateDescending(_)
ByPurchaseDateDescending(rows) ==
    IF rows = {} THEN <<>>
    ELSE LET m == CHOOSE x \in rows : \A y \in rows :
                      \/ x.purchase_date > y.purchase_date
                      \/ x.purchase_date = y.purchase_date /\ x.id >= y.id
         IN  << m >> \o ByPurchaseDateDescending(rows \ { m })

\* supabase.auth.onAuthStateChange callback with the session s (a login, a
\* refreshed session, or null at logout), and the effect on [session] that
\* follows: loadUserData is started, or both lists are emptied.
AuthStateChange(s) ==
    /\ s # Null \/ session # Null
    /\ s # Null => CanIssue
    /\ Apply(IF s # Null
             THEN [ Cur EXCEPT !.session = s,
                               !.isAuthModalOpen = FALSE,
                               !.profilePending = TRUE,
                               !.inflight = BagAdd(@, Request("loadUserData", "app", 0, 0, Null)) ]
             ELSE [ Cur EXCEPT !.session = Null,
                               !.profile = Null,
                               !.currentView = "search",
                               !.watchlist = <<>>,
                               !.investments = <<>> ])

\* getProfile resolves inside the auth callback: setProfile(userProfile),
\* and the profile modal opens for a profile without a username.
ProfileLoaded(userProfile) ==
    /\ profilePending
    /\ Apply([ Cur EXCEPT !.profilePending = FALSE,
                          !.profile = userProfile,
                          !.isProfileModalOpen =
                              IF userProfile # Null /\ ValueOf(userProfile).username = Null
                              THEN TRUE ELSE @ ])

\* loadUserData after its await: both lists are set from the store, or the
\* error is logged.
LoadUserDataSettles(r, ok) ==
    /\ r \in BagToSet(inflight) /\ r.kind = "loadUserData"
    /\ Apply(IF ok
             THEN [ Cur EXCEPT !.inflight = BagRemove(@, r),
                               !.watchlist = AscendingIds(storeWatchlist),
                               !.investments = ByPurchaseDateDescending(storeInvestments) ]
             ELSE [ Cur EXCEPT !.inflight = BagRemove(@, r) ])

\* switchView(view) from the navigation buttons (those of the portfolio and
\* the alerts are disabled without a session) and from handleBack.
SwitchView(view) ==
    /\ ~OverlayShown
    /\ view \in { "search", "portfolio", "alerts" }
    /\ view # currentView \/ selectedItem # Null \/ timeseries # <<>>
    /\ view # "search" => session # Null
    /\ Apply([ Cur EXCEPT !.currentView = view, !.selectedItem = Null,
                          !.timeseries = <<>> ])

\* The fetchTimeseries calls made in one run of the App.
MaxFetches == 3
CanFetch == fetchCount < MaxFetches

\* A fetchTimeseries(item.id, timeStep) call that has not settled; request is
\* its number among the calls made.
Fetch(item, timeStep, request) ==
    [ item |-> item, timeStep |-> timeStep, request |-> request ]

\* handleSelectTimedItem(item, timeStep) up to its await, on the state st.
SelectTimedItem(st, item, timeStep) ==
    [ st EXCEPT !.isItemLoading = TRUE,
                !.selectedItem = Some(item),
                !.currentView = "item",
                !.fetches = Append(@, Fetch(item, timeStep, st.fetchCount + 1)),
                !.fetchCount = @ + 1 ]

\* handleItemSelection(item), from the search results or the alerts page
\* (both list the items of the catalog): handleSelectTimedItem with the
\* default time step, up to its await.
HandleSelectTimedItem(item) ==
    /\ ~OverlayShown
    /\ ContentRendered(Cur)
    /\ currentView \in { "search", "alerts" }
    /\ item \in DOMAIN items
    /\ CanFetch
    /\ Apply(SelectTimedItem(Cur, item, "1h"))

\* The ItemView of the item is on screen.
ItemViewShows(itemId) ==
    ~OverlayShown /\ itemView # Null /\ selectedItem = Some(itemId)

\* What the API delivers for a call: two points, the newer first; each
\* carries the call it answers.
TimeseriesOf(f) ==
    << [ timestamp |-> 2, item |-> f.item, timeStep |-> f.timeStep, request |-> f.request ],
       [ timestamp |-> 1, item |-> f.item, timeStep |-> f.timeStep, request |-> f.request ] >>

\* The messages setError is given
InitialLoadMessage == "Failed to load initial item data. Please try refreshing the page."
PriceDataMessage(item) ==
    IF Items[item].name = "Rune platebody"
    THEN "Failed to load price data for Rune platebody."
    ELSE "Failed to load price data for Old school bonds."

\* A slip: the error of a failed fetch is not kept.
FetchTimeseriesSettles_ErrorDropped(k, ok) ==
    /\ k \in DOMAIN fetches
    /\ LET f == fetches[k]
           st == [ Cur EXCEPT !.fetches = SubSeq(@, 1, k - 1) \o SubSeq(@, k + 1, Len(@)),
                              !.isItemLoading = FALSE ]
       IN  Apply(IF ok
                 THEN [ st EXCEPT !.timeseries = SortByTimestamp(TimeseriesOf(f)) ]
                 ELSE st)

\* handleSelectTimedItem after its await, for the k-th call that waits: the
\* sorted data is set, or the error; isItemLoading is set to false in both
\* cases.
FetchTimeseriesSettles(k, ok) ==
    /\ k \in DOMAIN fetches
    /\ LET f == fetches[k]
           st == [ Cur EXCEPT !.fetches = SubSeq(@, 1, k - 1) \o SubSeq(@, k + 1, Len(@)),
                              !.isItemLoading = FALSE ]
       IN  Apply(IF ok
                 THEN [ st EXCEPT !.timeseries = SortByTimestamp(TimeseriesOf(f)) ]
                 ELSE [ st EXCEPT !.error = Some(PriceDataMessage(f.item)) ])

\* A slip: the catalog is kept when the load fails.
InitializeDataSettles_PartialKept(ok, hashItem) ==
    /\ isLoading
    /\ LET loaded == [ Cur EXCEPT !.items = Items,
                                  !.latestPrices = AppLatestPrices,
                                  !.isLoading = FALSE ]
       IN  Apply(IF ~ok
                 THEN [ Cur EXCEPT !.error = Some(InitialLoadMessage),
                                   !.items = Items,
                                   !.isLoading = FALSE ]
                 ELSE IF hashItem # Null /\ ValueOf(hashItem) \in DOMAIN Items
                 THEN SelectTimedItem(loaded, ValueOf(hashItem), "1h")
                 ELSE loaded)

\* initializeData after its await, and the routing effect that follows a
\* successful load: both maps are set, or the error; isLoading is set to
\* false in both cases.  hashItem is the item of a '#/item/<id>' hash of
\* the page's address (null: another hash or none); the effect selects it
\* if the catalog has it.
InitializeDataSettles(ok, hashItem) ==
    /\ isLoading
    /\ LET loaded == [ Cur EXCEPT !.items = Items,
                                  !.latestPrices = AppLatestPrices,
                                  !.isLoading = FALSE ]
       IN  Apply(IF ~ok
                 THEN [ Cur EXCEPT !.error = Some(InitialLoadMessage),
                                   !.isLoading = FALSE ]
                 ELSE IF hashItem # Null /\ ValueOf(hashItem) \in DOMAIN Items
                 THEN SelectTimedItem(loaded, ValueOf(hashItem), "1h")
                 ELSE loaded)

\* ---- ItemView
TimeViews == { "1H", "6H", "1D", "1W", "1M", "6M", "1Y" }
timeViewToApiTimeStep(timeView) ==
    IF timeView \in { "1H", "6H", "1D" } THEN "5m"
    ELSE IF timeView = "1W" THEN "1h"
    ELSE "6h"

\* The state of the mounted ItemView, and the state st with it replaced.
View == ValueOf(itemView)
SetView(st, v) == [ st EXCEPT !.itemView = Some(v) ]

\* A slip: the countdown is not reset after the refresh.
Tick_NoReset ==
    /\ itemView # Null /\ View.isAutoRefreshEnabled
    /\ LET c == IF View.countdown > 0 THEN View.countdown - 1 ELSE 0
       IN  IF c <= 0
           THEN /\ CanFetch
                /\ Apply(SetView(SelectTimedItem(Cur, ValueOf(selectedItem),
                                                 timeViewToApiTimeStep(View.activeTimeView)),
                                 [ View EXCEPT !.countdown = c ]))
           ELSE Apply(SetView(Cur, [ View EXCEPT !.countdown = c ]))

\* One tick of the interval the first effect of ItemView keeps while
\* isAutoRefreshEnabled, and the second effect, which runs after the render
\* in which countdown is 0: onRefresh with the step of the active time view,
\* and the countdown is back at its start.
Tick ==
    /\ itemView # Null /\ View.isAutoRefreshEnabled
    /\ LET c == IF View.countdown > 0 THEN View.countdown - 1 ELSE 0
       IN  IF c <= 0
           THEN /\ CanFetch
                /\ Apply(SetView(SelectTimedItem(Cur, ValueOf(selectedItem),
                                                 timeViewToApiTimeStep(View.activeTimeView)),
                                 [ View EXCEPT !.countdown = REFRESH_SECONDS ]))
           ELSE Apply(SetView(Cur, [ View EXCEPT !.countdown = c ]))

\* handleTimeViewChange(timeView), from the drop-down of the ItemView
HandleTimeViewChange(timeView) ==
    /\ \E item \in ItemIds : ItemViewShows(item)
    /\ CanFetch
    /\ Apply(SetView(SelectTimedItem(Cur, ValueOf(selectedItem),
                                     timeViewToApiTimeStep(timeView)),
                     [ View EXCEPT !.activeTimeView = timeView,
                                   !.countdown = IF View.isAutoRefreshEnabled
                                                 THEN REFRESH_SECONDS ELSE @ ]))

\* handleManualRefresh, from the refresh button (disabled while isLoading
\* or isAutoRefreshEnabled)
HandleManualRefresh ==
    /\ \E item \in ItemIds : ItemViewShows(item)
    /\ ~isItemLoading /\ ~View.isAutoRefreshEnabled
    /\ CanFetch
    /\ Apply(SetView(SelectTimedItem(Cur, ValueOf(selectedItem),
                                     timeViewToApiTimeStep(View.activeTimeView)),
                     [ View EXCEPT !.countdown = IF View.isAutoRefreshEnabled
                                                 THEN REFRESH_SECONDS ELSE @ ]))

\* handleToggleAutoRefresh, from the switch
HandleToggleAutoRefresh ==
    /\ \E item \in ItemIds : ItemViewShows(item)
    /\ Apply(SetView(Cur, [ View EXCEPT !.isAutoRefreshEnabled = ~@,
                                        !.countdown = IF ~View.isAutoRefreshEnabled
                                                      THEN REFRESH_SECONDS ELSE @ ]))

\* onClose of AuthModal and of ProfileModal
AuthModalClose ==
    /\ AuthModalShown
    /\ Apply([ Cur EXCEPT !.isAuthModalOpen = FALSE ])

ProfileModalClose ==
    /\ ProfileModalShown
    /\ Apply([ Cur EXCEPT !.isProfileModalOpen = FALSE ])

\* toggleWatchlist(itemId) up to its await.
ToggleWatchlist(itemId) ==
    /\ ItemViewShows(itemId)
    /\ IF session = Null
       THEN Apply([ Cur EXCEPT !.isAuthModalOpen = TRUE ])
       ELSE IF profile # Null /\ ValueOf(profile).username = Null
       THEN Apply([ Cur EXCEPT !.isProfileModalOpen = TRUE ])
       ELSE /\ CanIssue
            /\ IF Includes(watchlist, itemId)
               THEN Apply([ Cur EXCEPT
                        !.watchlist = WithoutItem(@, itemId),
                        !.inflight = BagAdd(@, Request("removeFromWatchlist", "app", itemId, 0, Null)) ])
               ELSE Apply([ Cur EXCEPT
                        !.watchlist = Append(@, itemId),
                        !.inflight = BagAdd(@, Request("addToWatchlist", "app", itemId, 0, Null)) ])

\* A slip: a catch that leaves the speculative change in place.
ToggleWatchlistSettles_NoRollback(r, ok) ==
    /\ r \in BagToSet(inflight) /\ r.kind \in { "addToWatchlist", "removeFromWatchlist" }
    /\ Apply(IF ok
             THEN [ Cur EXCEPT !.inflight = BagRemove(@, r),
                               !.storeWatchlist = IF r.kind = "addToWatchlist"
                                                  THEN @ \cup { r.itemId }
                                                  ELSE @ \ { r.itemId } ]
             ELSE [ Cur EXCEPT !.inflight = BagRemove(@, r) ])

\* toggleWatchlist after its await: nothing more on success, the speculative
\* change undone in the catch.
ToggleWatchlistSettles(r, ok) ==
    /\ r \in BagToSet(inflight) /\ r.kind \in { "addToWatchlist", "removeFromWatchlist" }
    /\ Apply(IF ok
             THEN [ Cur EXCEPT !.inflight = BagRemove(@, r),
                               !.storeWatchlist = IF r.kind = "addToWatchlist"
                                                  THEN @ \cup { r.itemId }
                                                  ELSE @ \ { r.itemId } ]
             ELSE [ Cur EXCEPT !.inflight = BagRemove(@, r),
                               !.watchlist = IF r.kind = "addToWatchlist"
                                             THEN WithoutItem(@, r.itemId)
                                             ELSE Append(@, r.itemId) ])

\* The investment rows the store may ever create.
MaxRecords == 2
CanCreate ==
    LET adds == { r \in BagToSet(inflight) : r.kind = "addInvestment" }
    IN  (nextId - 1) + SumOver(adds, [ r \in adds |-> CopiesIn(r, inflight) ]) < MaxRecords

\* The messages the modals show.
QuantityMessage == "Quantity must be a positive number."
PriceMessage ==
    "Price must be a positive number. You can use \"k\" for thousands and \"m\" for millions."
SellPriceMessage ==
    "Sell price must be a positive number. You can use \"k\" for thousands and \"m\" for millions."
DateMessage == "Please select a valid date."
NotAuthenticatedMessage == "User not authenticated"
StoreErrorMessage == "store error"

\* handleOpenAddInvestmentModal(item), from the item view.
HandleOpenAddInvestmentModal(item) ==
    /\ ItemViewShows(item)
    /\ IF session = Null
       THEN Apply([ Cur EXCEPT !.isAuthModalOpen = TRUE ])
       ELSE Apply([ Cur EXCEPT !.investmentModalItem = Some(item),
                               !.isAddInvestmentModalOpen = TRUE ])

\* onChange of the three inputs of AddInvestmentModal
AddModalSetQuantity(text) ==
    /\ addModal # Null /\ ValueOf(addModal).quantity # text
    /\ Apply([ Cur EXCEPT !.addModal = Some([ ValueOf(@) EXCEPT !.quantity = text ]) ])

AddModalSetPrice(text) ==
    /\ addModal # Null /\ ValueOf(addModal).price # text
    /\ Apply([ Cur EXCEPT !.addModal = Some([ ValueOf(@) EXCEPT !.price = text ]) ])

AddModalSetDate(d) ==
    /\ addModal # Null /\ ValueOf(addModal).date # d
    /\ Apply([ Cur EXCEPT !.addModal = Some([ ValueOf(@) EXCEPT !.date = d ]) ])

\* onClose of AddInvestmentModal (the X button and the backdrop)
AddModalClose ==
    /\ addModal # Null
    /\ Apply([ Cur EXCEPT !.isAddInvestmentModalOpen = FALSE ])

\* A slip: the quantity check with < in place of <=.
AddModalValidation_ZeroQuantity(modal) ==
    LET numQuantity == parseInt(modal.quantity)
        numPrice == parseShorthandPrice(modal.price)
    IN  IF IsNaN(numQuantity) \/ ValueOf(numQuantity) < 0 THEN Some(QuantityMessage)
        ELSE IF IsNaN(numPrice) \/ ValueOf(numPrice) <= 0 THEN Some(PriceMessage)
        ELSE IF modal.date = Null THEN Some(DateMessage)
        ELSE Null

\* The first violated check of AddInvestmentModal.handleSubmit, or null.
AddModalValidation(modal) ==
    LET numQuantity == parseInt(modal.quantity)
        numPrice == parseShorthandPrice(modal.price)
    IN  IF IsNaN(numQuantity) \/ ValueOf(numQuantity) <= 0 THEN Some(QuantityMessage)
        ELSE IF IsNaN(numPrice) \/ ValueOf(numPrice) <= 0 THEN Some(PriceMessage)
        ELSE IF modal.date = Null THEN Some(DateMessage)
        ELSE Null

\* A slip: a new record created with a tax of 0 in place of null.
AddModalInvestmentData_TaxZero(modal, item_id) ==
    Investment(0, item_id, ValueOf(parseInt(modal.quantity)),
               ValueOf(parseShorthandPrice(modal.price)),
               DateToISOString(ValueOf(modal.date)), Null, Null, Some(0))

\* The investmentData that handleSubmit hands to onSave (id 0: not yet a row).
AddModalInvestmentData(modal, item_id) ==
    Investment(0, item_id, ValueOf(parseInt(modal.quantity)),
               ValueOf(parseShorthandPrice(modal.price)),
               DateToISOString(ValueOf(modal.date)), Null, Null, Null)

\* A slip: handleSaveInvestment without its session check.
AddModalSubmit_NoSessionCheck ==
    /\ addModal # Null /\ ~ValueOf(addModal).loading
    /\ LET modal == ValueOf(addModal)
           invalid == AddModalValidation(modal)
       IN  IF invalid # Null
           THEN Apply([ Cur EXCEPT !.addModal =
                          Some([ modal EXCEPT !.error = invalid, !.loading = FALSE ]) ])
           ELSE /\ CanIssue /\ CanCreate
                /\ Apply([ Cur EXCEPT
                      !.addModal = Some([ modal EXCEPT !.error = Null, !.loading = TRUE ]),
                      !.inflight = BagAdd(@,
                          Request("addInvestment", "add", 0, 0,
                                  Some(AddModalInvestmentData(modal,
                                           ValueOf(investmentModalItem))))) ])

\* AddInvestmentModal.handleSubmit up to its await, through
\* App.handleSaveInvestment: a validation message, the rejection of
\* handleSaveInvestment without a session, or the addInvestment request.
AddModalSubmit ==
    /\ addModal # Null /\ ~ValueOf(addModal).loading
    /\ LET modal == ValueOf(addModal)
           invalid == AddModalValidation(modal)
       IN  IF invalid # Null
           THEN Apply([ Cur EXCEPT !.addModal =
                          Some([ modal EXCEPT !.error = invalid, !.loading = FALSE ]) ])
           ELSE IF session = Null
           THEN Apply([ Cur EXCEPT !.addModal =
                          Some([ modal EXCEPT !.error = Some(NotAuthenticatedMessage),
                                              !.loading = FALSE ]) ])
           ELSE /\ CanIssue /\ CanCreate
                /\ Apply([ Cur EXCEPT
                      !.addModal = Some([ modal EXCEPT !.error = Null, !.loading = TRUE ]),
                      !.inflight = BagAdd(@,
                          Request("addInvestment", "add", 0, 0,
                                  Some(AddModalInvestmentData(modal,
                                           ValueOf(investmentModalItem))))) ])

\* handleSaveInvestment and handleSubmit after the await: the row the store
\* created is put first in the list and the modal closes; or the error is
\* shown in the modal.
AddInvestmentSettles(r, ok) ==
    /\ r \in BagToSet(inflight) /\ r.kind = "addInvestment"
    /\ IF ok
       THEN LET newInvestment == [ ValueOf(r.data) EXCEPT !.id = nextId ]
            IN  Apply([ Cur EXCEPT
                    !.inflight = BagRemove(@, r),
                    !.storeInvestments = @ \cup { newInvestment },
                    !.nextId = @ + 1,
                    !.investments = << newInvestment >> \o @,
                    !.isAddInvestmentModalOpen = FALSE ])
       ELSE Apply([ Cur EXCEPT
                    !.inflight = BagRemove(@, r),
                    !.addModal = IF r.alive
                                 THEN Some([ ValueOf(@) EXCEPT
                                               !.error = Some(StoreErrorMessage),
                                               !.loading = FALSE ])
                                 ELSE @ ])

\* PortfolioPage is mounted and renders its lists and dialogs (it returns
\* the empty-portfolio screen before them when investments is empty).
PageShowsLists == portfolioPage # Null /\ investments # <<>>
PageTakesClicks == PageShowsLists /\ ~OverlayShown
Page == ValueOf(portfolioPage)
SetPage(st, page) == [ st EXCEPT !.portfolioPage = Some(page) ]

\* The Sell button of the open position at index i: setInvestmentToSell(inv)
OpenSellModal(i) ==
    /\ PageTakesClicks
    /\ i \in DOMAIN investments /\ investments[i].sell_price = Null
    /\ Page.investmentToSell # Some(investments[i])
    /\ Apply(SetPage(Cur, [ Page EXCEPT !.investmentToSell = Some(investments[i]) ]))

\* onChange of the two inputs of SellInvestmentModal
SellModalSetPrice(text) ==
    /\ sellModal # Null /\ ValueOf(sellModal).price # text
    /\ Apply([ Cur EXCEPT !.sellModal = Some([ ValueOf(@) EXCEPT !.price = text ]) ])

SellModalSetDate(d) ==
    /\ sellModal # Null /\ ValueOf(sellModal).date # d
    /\ Apply([ Cur EXCEPT !.sellModal = Some([ ValueOf(@) EXCEPT !.date = d ]) ])

\* onClose of SellInvestmentModal: setInvestmentToSell(null)
SellModalClose ==
    /\ sellModal # Null
    /\ Apply(SetPage(Cur, [ Page EXCEPT !.investmentToSell = Null ]))

\* A slip: the tax of one unit, the quantity left out.
SellModalTax_PerUnit(modal, investment) ==
    LET parsedPrice == parseShorthandPrice(modal.price)
    IN  IF IsNaN(parsedPrice) THEN 0
        ELSE calculateGeTax(Items[investment.item_id].name, ValueOf(parsedPrice), 1)

\* The memoised tax of SellInvestmentModal for the price field's text
SellModalTax(modal, investment) ==
    LET parsedPrice == parseShorthandPrice(modal.price)
    IN  IF IsNaN(parsedPrice) THEN 0
        ELSE calculateGeTax(Items[investment.item_id].name, ValueOf(parsedPrice),
                            investment.quantity)

\* The first violated check of SellInvestmentModal.handleSubmit, or null.
SellModalValidation(modal) ==
    LET numPrice == parseShorthandPrice(modal.price)
    IN  IF IsNaN(numPrice) \/ ValueOf(numPrice) <= 0 THEN Some(SellPriceMessage)
        ELSE IF modal.date = Null THEN Some(DateMessage)
        ELSE Null

\* The sellData that handleSubmit hands to onSave.
SellModalSellData(modal, investment) ==
    [ sell_price |-> ValueOf(parseShorthandPrice(modal.price)),
      sell_date |-> DateToISOString(ValueOf(modal.date)),
      tax_paid |-> SellModalTax(modal, investment) ]

\* SellInvestmentModal.handleSubmit up to its await, through
\* App.handleCloseInvestment: a validation message or the closeInvestment
\* request.
SellModalSubmit ==
    /\ sellModal # Null /\ ~ValueOf(sellModal).loading
    /\ LET modal == ValueOf(sellModal)
           investment == ValueOf(Page.investmentToSell)
           invalid == SellModalValidation(modal)
       IN  IF invalid # Null
           THEN Apply([ Cur EXCEPT !.sellModal =
                          Some([ modal EXCEPT !.error = invalid, !.loading = FALSE ]) ])
           ELSE /\ CanIssue
                /\ Apply([ Cur EXCEPT
                      !.sellModal = Some([ modal EXCEPT !.error = Null, !.loading = TRUE ]),
                      !.inflight = BagAdd(@,
                          Request("closeInvestment", "sell", 0, investment.id,
                                  Some(SellModalSellData(modal, investment)))) ])

\* The row of the store with the id.
StoreHas(id) == \E row \in storeInvestments : row.id = id
StoreRow(id) == CHOOSE row \in storeInvestments : row.id = id

\* A map that puts the updated row in the place of every record.
ReplaceById_EveryRecord(list, investmentId, updatedInvestment) ==
    [ k \in DOMAIN list |-> updatedInvestment ]

\* investments.map(inv => inv.id === investmentId ? updatedInvestment : inv)
ReplaceById(list, investmentId, updatedInvestment) ==
    [ k \in DOMAIN list |-> IF list[k].id = investmentId THEN updatedInvestment ELSE list[k] ]

\* handleCloseInvestment and handleSubmit after the await: the updated row
\* replaces the record and onClose runs; or the error is shown in the
\* modal.  The store's update finds no row once the row is deleted.
CloseInvestmentSettles(r, ok) ==
    /\ r \in BagToSet(inflight) /\ r.kind = "closeInvestment"
    /\ ok => StoreHas(r.investmentId)
    /\ IF ok
       THEN LET sellData == ValueOf(r.data)
                updatedInvestment ==
                    [ StoreRow(r.investmentId) EXCEPT
                        !.sell_price = Some(sellData.sell_price),
                        !.sell_date = Some(sellData.sell_date),
                        !.tax_paid = Some(sellData.tax_paid) ]
                st == [ Cur EXCEPT
                        !.inflight = BagRemove(@, r),
                        !.storeInvestments =
                            (@ \ { StoreRow(r.investmentId) }) \cup { updatedInvestment },
                        !.investments = ReplaceById(@, r.investmentId, updatedInvestment) ]
            IN  Apply(IF r.pageAlive
                      THEN SetPage(st, [ Page EXCEPT !.investmentToSell = Null ])
                      ELSE st)
       ELSE Apply([ Cur EXCEPT
                    !.inflight = BagRemove(@, r),
                    !.sellModal = IF r.alive
                                  THEN Some([ ValueOf(@) EXCEPT
                                                !.error = Some(StoreErrorMessage),
                                                !.loading = FALSE ])
                                  ELSE @ ])

\* The trash button of the record at index i: setInvestmentToDelete(inv)
OpenDeleteConfirm(i) ==
    /\ PageTakesClicks
    /\ i \in DOMAIN investments
    /\ Page.investmentToDelete # Some(investments[i])
    /\ Apply(SetPage(Cur, [ Page EXCEPT !.investmentToDelete = Some(investments[i]) ]))

\* The delete dialog is on screen with its buttons enabled.
DeleteDialogEnabled ==
    /\ PageShowsLists /\ Page.investmentToDelete # Null /\ ~Page.isDeleting
    /\ ValueOf(Page.investmentToDelete).item_id \in DOMAIN Items

\* Cancel of the delete dialog
CancelDelete ==
    /\ DeleteDialogEnabled
    /\ Apply(SetPage(Cur, [ Page EXCEPT !.investmentToDelete = Null ]))

\* handleConfirmDelete up to its await, through App.handleDeleteInvestment:
\* the rejection without a session is caught and logged, else the
\* deleteInvestment request is sent.
ConfirmDelete ==
    /\ DeleteDialogEnabled
    /\ IF session = Null
       THEN Apply(SetPage(Cur, [ Page EXCEPT !.isDeleting = FALSE ]))
       ELSE /\ CanIssue
            /\ Apply([ SetPage(Cur, [ Page EXCEPT !.isDeleting = TRUE ]) EXCEPT
                  !.inflight = BagAdd(@,
                      Request("deleteInvestment", "page", 0,
                              ValueOf(Page.investmentToDelete).id, Null)) ])

\* handleDeleteInvestment and handleConfirmDelete after the await: the
\* record is filtered out and the dialog closes; or the error is logged.
\* The store's delete finds no row once the row is deleted.
DeleteInvestmentSettles(r, ok) ==
    /\ r \in BagToSet(inflight) /\ r.kind = "deleteInvestment"
    /\ ok => StoreHas(r.investmentId)
    /\ LET st == IF ok
                 THEN [ Cur EXCEPT
                        !.inflight = BagRemove(@, r),
                        !.storeInvestments = { row \in @ : row.id # r.investmentId },
                        !.investments = SelectSeq(@, LAMBDA inv : inv.id # r.investmentId) ]
                 ELSE [ Cur EXCEPT !.inflight = BagRemove(@, r) ]
       IN  Apply(IF r.alive
                 THEN SetPage(st, [ Page EXCEPT
                          !.investmentToDelete = IF ok THEN Null ELSE @,
                          !.isDeleting = FALSE ])
                 ELSE st)

\* The Clear Portfolio button: setIsClearConfirmOpen(true)
OpenClearConfirm ==
    /\ PageTakesClicks
    /\ Apply(SetPage(Cur, [ Page EXCEPT !.isClearConfirmOpen = TRUE ]))

\* The clear dialog is on screen with its buttons enabled.
ClearDialogEnabled == PageShowsLists /\ Page.isClearConfirmOpen /\ ~Page.isClearing

\* Cancel of the clear dialog
CancelClear ==
    /\ ClearDialogEnabled
    /\ Apply(SetPage(Cur, [ Page EXCEPT !.isClearConfirmOpen = FALSE ]))

\* handleConfirmClear up to its await, through App.handleClearPortfolio: the
\* rejection without a session is caught and logged and the dialog closes,
\* else the clearUserInvestments request is sent.
ConfirmClear ==
    /\ ClearDialogEnabled
    /\ IF session = Null
       THEN Apply(SetPage(Cur, [ Page EXCEPT !.isClearing = FALSE,
                                             !.isClearConfirmOpen = FALSE ]))
       ELSE /\ CanIssue
            /\ Apply([ SetPage(Cur, [ Page EXCEPT !.isClearing = TRUE ]) EXCEPT
                  !.inflight = BagAdd(@,
                      Request("clearUserInvestments", "page", 0, 0, Null)) ])

\* handleClearPortfolio and handleConfirmClear after the await: the list is
\* emptied, or the error is logged; the dialog closes in both cases.
ClearPortfolioSettles(r, ok) ==
    /\ r \in BagToSet(inflight) /\ r.kind = "clearUserInvestments"
    /\ LET st == IF ok
                 THEN [ Cur EXCEPT !.inflight = BagRemove(@, r),
                                   !.storeInvestments = {},
                                   !.investments = <<>> ]
                 ELSE [ Cur EXCEPT !.inflight = BagRemove(@, r) ]
       IN  Apply(IF r.alive
                 THEN SetPage(st, [ Page EXCEPT !.isClearing = FALSE,
                                                !.isClearConfirmOpen = FALSE ])
                 ELSE st)

\* The App once initializeData has set the catalog and the latest prices,
\* with no item selected yet.
IdleItem ==
    /\ items = Items /\ isLoading = FALSE /\ isItemLoading = FALSE
    /\ timeseries = <<>> /\ itemView = Null /\ fetches = <<>> /\ fetchCount = 0

\* ---- inputs of the App specification
\* The texts typed into the quantity and price inputs, and the values of the
\* date inputs (null: the empty string).
AppQuantityTexts == { << >>, << "0" >>, << "2" >> }
AppPriceTexts == { << >>, << "0" >>, << "1", "k" >> }
DateInputs == { Null, Some(Today) }

\* The rows the user's earlier sessions left in the store: none, or one open
\* position.
StoredRow == Investment(1, 1, 2, 60, DateToISOString(Today - 1), Null, Null, Null)
InitialStores == { {}, { StoredRow } }

\* The App after construction: nobody is signed in, nothing is loaded; the
\* store holds what earlier sessions left.
InitSignedOut ==
    /\ IdleTax
    /\ IdleParse
    /\ IdleHistory
    /\ investments = <<>> /\ latestPrices = AppLatestPrices
    /\ openPositions = <<>> /\ closedPositions = <<>> /\ summaryStats = NoReturn
    /\ session = Null /\ profile = Null /\ profilePending = FALSE
    /\ currentView = "search" /\ selectedItem = Null /\ error = Null
    /\ isAuthModalOpen = FALSE /\ isProfileModalOpen = FALSE
    /\ watchlist = <<>> /\ alerts = <<>>
    /\ isAddInvestmentModalOpen = FALSE /\ investmentModalItem = Null
    /\ addModal = Null /\ portfolioPage = Null /\ sellModal = Null
    /\ inflight = EmptyBag
    /\ IdleItem
    /\ storeInvestments \in InitialStores
    /\ nextId = Cardinality(storeInvestments) + 1
    /\ storeWatchlist \in { {}, { 1 } }

\* The App once the user has signed in, getProfile has delivered a profile
\* with a username and loadUserData has set both lists from the store: one
\* open position, an empty watchlist.
NamedProfile == Some([ username |-> Some("name") ])
InitSignedIn ==
    /\ IdleTax
    /\ IdleParse
    /\ IdleHistory
    /\ latestPrices = AppLatestPrices
    /\ openPositions = <<>> /\ closedPositions = <<>> /\ summaryStats = NoReturn
    /\ session = UserSession /\ profile = NamedProfile /\ profilePending = FALSE
    /\ currentView = "search" /\ selectedItem = Null /\ error = Null
    /\ isAuthModalOpen = FALSE /\ isProfileModalOpen = FALSE
    /\ alerts = <<>>
    /\ isAddInvestmentModalOpen = FALSE /\ investmentModalItem = Null
    /\ addModal = Null /\ portfolioPage = Null /\ sellModal = Null
    /\ inflight = EmptyBag
    /\ IdleItem
    /\ storeInvestments = { StoredRow }
    /\ investments = ByPurchaseDateDescending(storeInvestments)
    /\ nextId = Cardinality(storeInvestments) + 1
    /\ storeWatchlist = {}
    /\ watchlist = AscendingIds(storeWatchlist)

\* The selections of an item in a run about the watchlist or the portfolio;
\* their price fetches have not answered by the end of the run.
MaxSelections == 1

\* ---- the session, the profiles and the watchlist of both items
InitWatchlist == InitSignedOut /\ storeInvestments = {}

NextWatchlist ==
    /\ \/ \E s \in { Null, UserSession } : AuthStateChange(s)
       \/ \E p \in Profiles : ProfileLoaded(p)
       \/ AuthModalClose
       \/ ProfileModalClose
       \/ \E view \in { "search" } : SwitchView(view)
       \/ \E item \in ItemIds : HandleSelectTimedItem(item)
       \/ \E item \in ItemIds : ToggleWatchlist(item)
       \/ \E r \in BagToSet(inflight), ok \in BOOLEAN :
             \/ LoadUserDataSettles(r, ok)
             \/ ToggleWatchlistSettles(r, ok)
    /\ fetchCount' <= MaxSelections

SpecWatchlist == InitWatchlist /\ [][NextWatchlist]_vars

\* ---- the signed-in user's portfolio: every store mutation, with the
\* inputs of the modals as they open and one other sell price
NextLedger ==
    /\ \/ \E view \in { "search", "portfolio" } : SwitchView(view)
       \/ \E item \in { 1 } : HandleSelectTimedItem(item)
       \/ \E item \in { 1 } : ToggleWatchlist(item)
       \/ \E item \in { 1 } : HandleOpenAddInvestmentModal(item)
       \/ AddModalClose
       \/ AddModalSubmit
       \/ \E i \in 1 .. MaxRecords : OpenSellModal(i)
       \/ \E text \in { << "1", "k" >> } : SellModalSetPrice(text)
       \/ SellModalClose
       \/ SellModalSubmit
       \/ \E i \in 1 .. MaxRecords : OpenDeleteConfirm(i)
       \/ CancelDelete
       \/ ConfirmDelete
       \/ OpenClearConfirm
       \/ CancelClear
       \/ ConfirmClear
       \/ \E r \in BagToSet(inflight), ok \in BOOLEAN :
             \/ ToggleWatchlistSettles(r, ok)
             \/ AddInvestmentSettles(r, ok)
             \/ CloseInvestmentSettles(r, ok)
             \/ DeleteInvestmentSettles(r, ok)
             \/ ClearPortfolioSettles(r, ok)
    /\ fetchCount' <= MaxSelections

SpecLedger == InitSignedIn /\ [][NextLedger]_vars

\* ---- the two forms of the signed-in user, with edits of every input
\* and at most MaxFormRequests requests waiting at once
MaxFormRequests == 1
NextForms ==
    /\ \/ \E view \in { "search", "portfolio" } : SwitchView(view)
       \/ \E item \in { 1 } : HandleSelectTimedItem(item)
       \/ \E item \in { 1 } : HandleOpenAddInvestmentModal(item)
       \/ \E text \in AppQuantityTexts : AddModalSetQuantity(text)
       \/ \E text \in AppPriceTexts : AddModalSetPrice(text)
       \/ \E d \in DateInputs : AddModalSetDate(d)
       \/ AddModalClose
       \/ AddModalSubmit
       \/ \E i \in 1 .. MaxRecords : OpenSellModal(i)
       \/ \E text \in AppPriceTexts : SellModalSetPrice(text)
       \/ \E d \in DateInputs : SellModalSetDate(d)
       \/ SellModalClose
       \/ SellModalSubmit
       \/ \E r \in BagToSet(inflight), ok \in BOOLEAN :
             \/ AddInvestmentSettles(r, ok)
             \/ CloseInvestmentSettles(r, ok)
    /\ BagCardinality(inflight') <= MaxFormRequests
    /\ fetchCount' <= MaxSelections

SpecForms == InitSignedIn /\ [][NextForms]_vars

\* ---- signing in and out around every store mutation; getProfile has not
\* answered, and toggleWatchlist goes on with a null profile as it does with
\* a named one
InitSession == InitSignedOut /\ storeInvestments = { StoredRow } /\ storeWatchlist = {}

NextSession ==
    /\ \/ \E s \in { Null, UserSession } : AuthStateChange(s)
       \/ AuthModalClose
       \/ \E view \in { "search", "portfolio" } : SwitchView(view)
       \/ \E item \in { 1 } : HandleSelectTimedItem(item)
       \/ \E item \in { 1 } : ToggleWatchlist(item)
       \/ \E item \in { 1 } : HandleOpenAddInvestmentModal(item)
       \/ AddModalClose
       \/ AddModalSubmit
       \/ \E i \in 1 .. MaxRecords : OpenSellModal(i)
       \/ SellModalClose
       \/ SellModalSubmit
       \/ \E i \in 1 .. MaxRecords : OpenDeleteConfirm(i)
       \/ CancelDelete
       \/ ConfirmDelete
       \/ OpenClearConfirm
       \/ CancelClear
       \/ ConfirmClear
       \/ \E r \in BagToSet(inflight), ok \in BOOLEAN :
             \/ LoadUserDataSettles(r, ok)
             \/ ToggleWatchlistSettles(r, ok)
             \/ AddInvestmentSettles(r, ok)
             \/ CloseInvestmentSettles(r, ok)
             \/ DeleteInvestmentSettles(r, ok)
             \/ ClearPortfolioSettles(r, ok)
    /\ fetchCount' <= MaxSelections

SpecSession == InitSession /\ [][NextSession]_vars

(***************************************************************************)
(* The lifecycle of the records of the local investment list               *)
(***************************************************************************)
\* The three sell fields of a record.
SellFields(inv) == << inv.sell_price, inv.sell_date, inv.tax_paid >>

\* The requests of the kind for the record that wait in the bag.
RequestCount(bag, kind, investmentId) ==
    LET rs == { r \in BagToSet(bag) : r.kind = kind /\ r.investmentId = investmentId }
    IN  SumOver(rs, [ r \in rs |-> CopiesIn(r, bag) ])

\* A record of the list is closed.
IsClosedRecord(inv) == inv.sell_price # Null

\* C13: over every step, a record that is closed in the local list keeps
\* its sell_price, sell_date and tax_paid for as long as it is in the list
\* (so it is closed once and never open again), and no closeInvestment
\* request is issued for a record that is closed in the list.
Claim13_ClosedOnce ==
    [][ \A i \in DOMAIN investments :
          IsClosedRecord(investments[i]) =>
              /\ \A j \in DOMAIN investments' :
                    investments'[j].id = investments[i].id =>
                        SellFields(investments'[j]) = SellFields(investments[i])
              /\ RequestCount(inflight', "closeInvestment", investments[i].id)
                     <= RequestCount(inflight, "closeInvestment", investments[i].id) ]_vars

\* C14: every record of the local investment list has sell_price, sell_date
\* and tax_paid all null (open) or all non-null (closed).
Claim14_SellFieldsTogether ==
    \A i \in DOMAIN investments :
        \/ SellFields(investments[i]) = << Null, Null, Null >>
        \/ /\ investments[i].sell_price # Null
           /\ investments[i].sell_date # Null
           /\ investments[i].tax_paid # Null

\* C14 witness: the list holds a record the add modal created, still open,
\* and the stored record, closed through the sell modal.
Witness14_CreatedAndClosed ==
    \E i, j \in DOMAIN investments :
        /\ investments[i].id > 1 /\ SellFields(investments[i]) = << Null, Null, Null >>
        /\ investments[j].id = 1 /\ IsClosedRecord(investments[j])
        /\ investments[j].tax_paid # Null

\* The closeInvestment requests that wait.
CloseRequests == { r \in BagToSet(inflight) : r.kind = "closeInvestment" }

\* The stored taxes of the closed records of the list, summed.
StoredTaxPaid ==
    SumOver(ClosedIdx, [ i \in ClosedIdx |->
        IF investments[i].tax_paid = Null THEN 0 ELSE ValueOf(investments[i].tax_paid) ])

\* C15: in every closeInvestment request, tax_paid is calculateGeTax of the
\* item's name, the sell_price of that same request and the record's
\* quantity, whatever was typed into the price field before the submit; and
\* the totalTaxPaid of the portfolio's summary is the sum of the stored
\* tax_paid values.
Claim15_TaxOfSavedPrice ==
    /\ \A r \in CloseRequests :
          \A i \in DOMAIN investments :
              investments[i].id = r.investmentId =>
                  ValueOf(r.data).tax_paid =
                      calculateGeTax(Items[investments[i].item_id].name,
                                     ValueOf(r.data).sell_price,
                                     investments[i].quantity)
    /\ LET parts == Partition(investments)
       IN  SummaryStats(parts.openPositions, parts.closedPositions,
                        latestPrices).totalTaxPaid = StoredTaxPaid

\* C15 witness: after the price field was edited to a price above the tax
\* floor, a closeInvestment request for a record of quantity 2 carries a
\* tax greater than 0, while the list holds a closed record whose stored tax
\* differs from the tax of the latest price.
Witness15_EditedPriceTaxed ==
    /\ \E r \in CloseRequests :
          /\ ValueOf(r.data).sell_price = 1000 /\ ValueOf(r.data).tax_paid = 40
          /\ \E i \in DOMAIN investments :
                investments[i].id = r.investmentId /\ investments[i].quantity = 2
    /\ \E j \in DOMAIN investments :
          /\ IsClosedRecord(investments[j])
          /\ ValueOf(investments[j].tax_paid) #
                 calculateGeTax(Items[investments[j].item_id].name,
                                CurrentPrice(latestPrices, investments[j].item_id),
                                investments[j].quantity)

\* A number parsed from a field is NaN or not greater than 0.
NotPositive(x) == IsNaN(x) \/ ValueOf(x) <= 0

\* The inputs of the add form, and of the sell form, are invalid.
InvalidAddInput(modal) ==
    \/ NotPositive(parseInt(modal.quantity))
    \/ NotPositive(parseShorthandPrice(modal.price))
    \/ modal.date = Null
InvalidSellInput(modal) ==
    \/ NotPositive(parseShorthandPrice(modal.price))
    \/ modal.date = Null

ValidationMessages == { QuantityMessage, PriceMessage, SellPriceMessage, DateMessage }

\* A form after a rejected submit: it is still mounted, shows a validation
\* message and is not loading.
ShowsValidationMessage(modal) ==
    /\ modal # Null
    /\ ValueOf(modal).error # Null
    /\ ValueOf(ValueOf(modal).error) \in ValidationMessages
    /\ ~ValueOf(modal).loading

\* C16: a submit of the add form with a quantity that is NaN or <= 0, or of
\* the add or sell form with a price that parses to NaN or to a value <= 0
\* or with an empty date, issues no store request, leaves the local
\* investment list (and the store) unchanged, sets a validation message,
\* ends with the loading flag false and leaves the modal open.
Claim16_InvalidInputRejected ==
    [][ /\ (AddModalSubmit /\ InvalidAddInput(ValueOf(addModal))) =>
              /\ inflight' = inflight
              /\ investments' = investments
              /\ storeInvestments' = storeInvestments
              /\ isAddInvestmentModalOpen'
              /\ ShowsValidationMessage(addModal')
        /\ (SellModalSubmit /\ InvalidSellInput(ValueOf(sellModal))) =>
              /\ inflight' = inflight
              /\ investments' = investments
              /\ storeInvestments' = storeInvestments
              /\ portfolioPage' = portfolioPage
              /\ ShowsValidationMessage(sellModal') ]_vars

\* C16 witness: the add form was submitted with the quantity 0 and shows the
\* quantity message, nothing waits at the store and the list is as loaded.
Witness16_QuantityRejected ==
    /\ addModal # Null /\ ValueOf(addModal).quantity = << "0" >>
    /\ ValueOf(addModal).error = Some(QuantityMessage)
    /\ ~ValueOf(addModal).loading
    /\ inflight = EmptyBag
    /\ investments = << StoredRow >>

(***************************************************************************)
(* Failing store mutations                                                 *)
(***************************************************************************)
\* The toggle requests for the item that wait in the bag.
TogglesInFlight(bag, itemId) ==
    LET rs == { r \in BagToSet(bag) :
                  /\ r.kind \in { "addToWatchlist", "removeFromWatchlist" }
                  /\ r.itemId = itemId }
    IN  SumOver(rs, [ r \in rs |-> CopiesIn(r, bag) ])

\* The step in which the investment mutation r fails.
InvestmentMutationFails(r) ==
    \/ AddInvestmentSettles(r, FALSE)
    \/ CloseInvestmentSettles(r, FALSE)
    \/ DeleteInvestmentSettles(r, FALSE)
    \/ ClearPortfolioSettles(r, FALSE)

\* C17: when the only waiting toggle of an item fails, the item is in the
\* local watchlist after the rollback exactly if it was before the toggle
\* (a removeFromWatchlist request is sent exactly for an item that was in
\* the list); when an add, close, delete or clear request fails, the local
\* investment list is unchanged; the failing step sends nothing again (the
\* bag loses the failed request and gains none), and no step sends more
\* than one request.
Claim17_FailureLeavesNoTrace ==
    [][ /\ \A r \in BagToSet(inflight) :
              /\ (ToggleWatchlistSettles(r, FALSE)
                    /\ TogglesInFlight(inflight, r.itemId) = 1) =>
                     /\ Includes(watchlist', r.itemId) <=> r.kind = "removeFromWatchlist"
                     /\ BagCardinality(inflight') = BagCardinality(inflight) - 1
                     /\ storeWatchlist' = storeWatchlist
              /\ InvestmentMutationFails(r) =>
                     /\ investments' = investments
                     /\ BagCardinality(inflight') = BagCardinality(inflight) - 1
                     /\ storeInvestments' = storeInvestments
        /\ BagCardinality(inflight') <= BagCardinality(inflight) + 1 ]_vars

\* C17 witness: the add form shows the store's error after its request
\* failed; nothing waits, and the list and the store are as loaded.
Witness17_AddFailed ==
    /\ addModal # Null /\ ValueOf(addModal).error = Some(StoreErrorMessage)
    /\ inflight = EmptyBag
    /\ investments = << StoredRow >> /\ storeInvestments = { StoredRow }

\* An error message is held in the state of the UI: the error of the App,
\* or that of a mounted form.
ErrorShown ==
    \/ error # Null
    \/ addModal # Null /\ ValueOf(addModal).error # Null
    \/ sellModal # Null /\ ValueOf(sellModal).error # Null

\* C18: after a failed watchlist add or remove, a failed investment add,
\* close or delete, or a failed clear, an error message is held in the state
\* of the UI.
Claim18_FailureSurfaced ==
    [][ \A r \in BagToSet(inflight) :
          (ToggleWatchlistSettles(r, FALSE) \/ InvestmentMutationFails(r)) =>
              ErrorShown' ]_vars

(***************************************************************************)
(* The session and the store                                               *)
(***************************************************************************)
\* The requests that change the store.
MutationKinds ==
    { "addToWatchlist", "removeFromWatchlist", "addInvestment", "closeInvestment",
      "deleteInvestment", "clearUserInvestments" }

\* The waiting requests of the kind.
KindCount(bag, kind) ==
    LET rs == { r \in BagToSet(bag) : r.kind = kind }
    IN  SumOver(rs, [ r \in rs |-> CopiesIn(r, bag) ])

\* C19: a watchlist add or remove, an investment create, close or delete
\* and a clear-portfolio request is issued only in a state with a session;
\* without a session, a watchlist toggle and an add-investment attempt open
\* the login modal, issue nothing and leave the local watchlist and
\* investment list as they are.
Claim19_SessionGatesStore ==
    [][ /\ \A kind \in MutationKinds :
              KindCount(inflight', kind) > KindCount(inflight, kind) => session # Null
        /\ \A item \in ItemIds :
              (session = Null /\ (ToggleWatchlist(item) \/ HandleOpenAddInvestmentModal(item))) =>
                  /\ isAuthModalOpen'
                  /\ ~isAddInvestmentModalOpen'
                  /\ inflight' = inflight
                  /\ watchlist' = watchlist
                  /\ investments' = investments ]_vars

\* C19 witness: nobody is signed in, the login modal is open over the item
\* view, nothing waits at the store, and the store holds a row that no local
\* list shows.
Witness19_LoginModalOnly ==
    /\ session = Null /\ AuthModalShown
    /\ currentView = "item" /\ selectedItem = Some(1)
    /\ inflight = EmptyBag
    /\ watchlist = <<>> /\ investments = <<>>
    /\ storeInvestments # {}

(***************************************************************************)
(* Price alerts: ItemView.handleSetAlert (the bell of the item view) and   *)
(* AlertsPage.handleRemoveAlert.  The list is the state of the             *)
(* useLocalStorage hook of App, handed to both components with its setter. *)
(***************************************************************************)
\* A PriceAlert; handleSetAlert always writes the condition 'below'.
PriceAlert(itemId, targetPrice) ==
    [ itemId |-> itemId, targetPrice |-> targetPrice, condition |-> "below" ]

\* setAlerts(updater) of the hook: a state setter given an updater function
\* stores the updater's result for the list it holds; updated is that
\* result, updater(alerts).
SetAlerts(updated) ==
    /\ alerts' = updated
    /\ UNCHANGED <<taxVars, propVars, memoVars, historyVars, authVars, viewVars,
                   watchlist, modalVars, storeVars, itemVars, parseVars>>

\* alerts.find(a => a.itemId === item.id) of the render
ExistingAlert(itemId) == \E k \in DOMAIN alerts : alerts[k].itemId = itemId

\* prev.filter(a => a.itemId !== item.id)
WithoutAlertsOf(prev, itemId) == SelectSeq(prev, LAMBDA a : a.itemId # itemId)

\* handleSetAlert of the item view: with a latest high price above 0, the
\* bell removes the item's alert if the render found one, else it puts a new
\* alert at the current price behind the alerts of the other items.
HandleSetAlert(itemId) ==
    /\ ItemViewShows(itemId)
    /\ LET currentPrice == CurrentPrice(latestPrices, itemId)
       IN  /\ currentPrice > 0
           /\ IF ExistingAlert(itemId)
              THEN SetAlerts(LET prev == alerts IN WithoutAlertsOf(prev, itemId))
              ELSE SetAlerts(LET prev == alerts IN
                       Append(WithoutAlertsOf(prev, itemId),
                              PriceAlert(itemId, currentPrice)))

\* A slip: the new alert appended to the whole list.
EarlierHandleSetAlert_NoFilter(itemId) ==
    /\ ItemViewShows(itemId)
    /\ LET currentPrice == CurrentPrice(latestPrices, itemId)
       IN  /\ currentPrice > 0
           /\ SetAlerts(LET prev == alerts IN Append(prev, PriceAlert(itemId, currentPrice)))

\* handleSetAlert of the earlier ItemView: with a latest high price above 0,
\* the bell always puts a new alert at the current price in the place of
\* the item's alert.
EarlierHandleSetAlert(itemId) ==
    /\ ItemViewShows(itemId)
    /\ LET currentPrice == CurrentPrice(latestPrices, itemId)
       IN  /\ currentPrice > 0
           /\ SetAlerts(LET prev == alerts IN
                  Append(WithoutAlertsOf(prev, itemId),
                         PriceAlert(itemId, currentPrice)))

\* handleRemoveAlert(item.id), from the X button of the item's card on the
\* alerts page
HandleRemoveAlert(itemId) ==
    /\ ~OverlayShown /\ ContentRendered(Cur) /\ currentView = "alerts"
    /\ ExistingAlert(itemId)
    /\ SetAlerts(LET prev == alerts IN WithoutAlertsOf(prev, itemId))

\* ---- inputs of the alerts specification
\* The latest prices: item 1 traded at 60 and item 2 not at all; item 1 at
\* 70 and item 2 with a high of 0; item 1 with a null high and item 2 at 80.
AlertPriceMaps ==
    { AppLatestPrices,
      [ id \in ItemIds |-> IF id = 1 THEN [ high |-> Some(70), low |-> Some(60) ]
                           ELSE [ high |-> Some(0), low |-> Null ] ],
      [ id \in ItemIds |-> IF id = 1 THEN [ high |-> Null, low |-> Some(60) ]
                           ELSE [ high |-> Some(80), low |-> Some(80) ] ] }

\* The alerts earlier visits left in the local storage, set at the prices of
\* their time.
StoredAlerts ==
    { <<>>, << PriceAlert(1, 50) >>, << PriceAlert(2, 40) >>,
      << PriceAlert(2, 40), PriceAlert(1, 50) >>,
      << PriceAlert(1, 60), PriceAlert(2, 40) >> }

\* The App signed out or signed in, with the stored alerts and the latest
\* prices loaded.
InitAlerts ==
    /\ IdleTax
    /\ IdleParse
    /\ IdleHistory
    /\ investments = <<>> /\ latestPrices \in AlertPriceMaps
    /\ openPositions = <<>> /\ closedPositions = <<>> /\ summaryStats = NoReturn
    /\ \/ session = Null /\ profile = Null
       \/ session = UserSession /\ profile = NamedProfile
    /\ profilePending = FALSE
    /\ currentView = "search" /\ selectedItem = Null /\ error = Null
    /\ isAuthModalOpen = FALSE /\ isProfileModalOpen = FALSE
    /\ watchlist = <<>> /\ alerts \in StoredAlerts
    /\ isAddInvestmentModalOpen = FALSE /\ investmentModalItem = Null
    /\ addModal = Null /\ portfolioPage = Null /\ sellModal = Null
    /\ inflight = EmptyBag
    /\ IdleItem
    /\ storeInvestments = {} /\ storeWatchlist = {} /\ nextId = 1

NextAlerts ==
    \/ \E view \in { "search", "alerts" } : SwitchView(view)
    \/ \E item \in ItemIds : HandleSelectTimedItem(item)
    \/ \E item \in ItemIds : HandleSetAlert(item)
    \/ \E item \in ItemIds : EarlierHandleSetAlert(item)
    \/ \E item \in ItemIds : HandleRemoveAlert(item)

SpecAlerts == InitAlerts /\ [][NextAlerts]_vars

\* The alerts of the item in a list.
AlertsOf(list, itemId) == { k \in DOMAIN list : list[k].itemId = itemId }

\* The list holds the alert.
HoldsAlert(list, a) == \E k \in DOMAIN list : list[k] = a

\* C20: over every step of the bell and of the alerts page, the list holds
\* at most one alert per item id afterwards; a step that puts a new alert in
\* the list leaves no other alert of that item in it, and happens only when
\* the item's latest high price is greater than 0 (the alert's target).
Claim20_OneAlertPerItem ==
    [][ /\ \A item \in ItemIds : Cardinality(AlertsOf(alerts', item)) <= 1
        /\ \A k \in DOMAIN alerts' :
              ~HoldsAlert(alerts, alerts'[k]) =>
                  /\ AlertsOf(alerts', alerts'[k].itemId) = { k }
                  /\ CurrentPrice(latestPrices, alerts'[k].itemId) > 0
                  /\ alerts'[k].targetPrice =
                         CurrentPrice(latestPrices, alerts'[k].itemId) ]_vars

\* C20 witness: the bell replaced the stored alert of item 1 (set at 50) by
\* one at the latest high price, behind the alert of item 2, for which no
\* alert can be set at a high price of 0.
Witness20_Replaced ==
    /\ alerts = << PriceAlert(2, 40), PriceAlert(1, 70) >>
    /\ CurrentPrice(latestPrices, 2) = 0

(***************************************************************************)
(* parseShorthandPrice on its own: one call per run, the argument drawn    *)
(* from texts put together from a padding, a sign, an integer part, a      *)
(* fraction, a suffix and a padding, and from a value that is no string.   *)
(* The fractions of the texts are halves, so every product the function    *)
(* forms is exact in double arithmetic.                                    *)
(***************************************************************************)
\* The argument of a call: a string with its text, or a value of another
\* type (the parameter is typed string, the function checks typeof).
JsString(text) == [ isString |-> TRUE, text |-> text ]
NotAString == [ isString |-> FALSE, text |-> <<>> ]

\* parseShorthandPrice with its typeof check
ParseShorthandPriceOf(arg) ==
    IF ~arg.isString THEN NaN ELSE parseShorthandPrice(arg.text)

\* The integer parts run over 0 .. MaxParseInteger.
MaxParseInteger == 2
Paddings == { <<>>, << " " >> }
Signs == { <<>>, << "-" >> }
IntegerParts ==
    { <<>>, << "1", ",", "2" >>, << "," >>, << "a" >> }
        \cup { NumberToString(n) : n \in 0 .. MaxParseInteger }
Fractions == { <<>>, << ".", "5" >> }
Suffixes == { <<>>, << "k" >>, << "K" >>, << "m" >>, << "M" >>, << "k", "," >>, << "m", "k" >> }
ExampleTexts ==
    { << "1", "0", "0", "k" >>, << "2", ".", "5", "m" >>,
      << "1", ",", "2", "3", "4", "k" >>, << "a", "b", "c" >> }
ShorthandTexts ==
    ExampleTexts
        \cup { lead \o sign \o int \o frac \o suffix \o trail :
                 lead \in Paddings, sign \in Signs, int \in IntegerParts,
                 frac \in Fractions, suffix \in Suffixes, trail \in Paddings }

InitParse ==
    /\ IdleTax
    /\ IdlePortfolio
    /\ IdleHistory
    /\ IdleApp
    /\ shorthandValue \in { NotAString } \cup { JsString(t) : t \in ShorthandTexts }
    /\ shorthandReturn = NoReturn

\* One call parseShorthandPrice(shorthandValue).
ParseShorthandPriceCall ==
    /\ shorthandReturn = NoReturn
    /\ shorthandReturn' = Returned(ParseShorthandPriceOf(shorthandValue))
    /\ UNCHANGED <<shorthandValue, taxVars, propVars, memoVars, historyVars, appVars>>

NextParse == ParseShorthandPriceCall

SpecParse == InitParse /\ [][NextParse]_vars

\* The call has returned, and what it returned.
ShorthandCalled == shorthandReturn # NoReturn
ShorthandResult == shorthandReturn[1]

\* The argument is the string text.
ShorthandIs(text) == shorthandValue = JsString(text)

\* What the claim's rules read off the argument: the lower-cased, trimmed
\* text, the multiplier of its last character, and the portion left when
\* the commas and one trailing suffix are taken away.
ClaimSanitized == Trim(ToLowerCase(shorthandValue.text))
ClaimMultiplier ==
    IF ClaimSanitized # <<>> /\ ClaimSanitized[Len(ClaimSanitized)] = "m" THEN 1000000
    ELSE IF ClaimSanitized # <<>> /\ ClaimSanitized[Len(ClaimSanitized)] = "k" THEN 1000
    ELSE 1
ClaimPortion ==
    LET bare == SelectSeq(ClaimSanitized, LAMBDA c : c # ",")
    IN  IF bare # <<>> /\ bare[Len(bare)] \in { "k", "m" }
        THEN SubSeq(bare, 1, Len(bare) - 1) ELSE bare
ClaimRejects ==
    \/ ~shorthandValue.isString
    \/ shorthandValue.text = <<>>
    \/ Trim(ClaimPortion) = <<>>
    \/ parseFloat(ClaimPortion) = NaN
\* numerator * multiplier / 10^scale, the product the result is cut from
ClaimNumerator == ValueOf(parseFloat(ClaimPortion)).numerator * ClaimMultiplier
ClaimDenominator == Pow10(ValueOf(parseFloat(ClaimPortion)).scale)

\* C21: the result is NaN exactly when the argument is no string, is empty,
\* has an empty portion left after the commas and the one trailing suffix
\* are removed, or has a portion that does not parse; otherwise it is the
\* whole number of the numeric portion times 1,000,000 for a trailing m,
\* 1,000 for a trailing k and 1 otherwise (for a portion without a
\* fraction, exactly that product); "100k" gives 100000, "2.5m" 2500000,
\* "1,234k" 1234000, and "k", ",", " " and "abc" give NaN.
Claim21_MultiplierAndRejection ==
    ShorthandCalled =>
        /\ ShorthandResult = NaN <=> ClaimRejects
        /\ ~ClaimRejects =>
              /\ ValueOf(ShorthandResult) * ClaimDenominator <= ClaimNumerator
              /\ ClaimNumerator < (ValueOf(ShorthandResult) + 1) * ClaimDenominator
        /\ ShorthandIs(<< "1", "0", "0", "k" >>) => ShorthandResult = << 100000 >>
        /\ ShorthandIs(<< "2", ".", "5", "m" >>) => ShorthandResult = << 2500000 >>
        /\ ShorthandIs(<< "1", ",", "2", "3", "4", "k" >>) => ShorthandResult = << 1234000 >>
        /\ \A t \in { << "k" >>, << "," >>, << " " >>, << "a", "b", "c" >> } :
              ShorthandIs(t) => ShorthandResult = NaN

\* C21 witness: a call with commas, a fraction and an upper-case suffix
\* between paddings has returned the product.
Witness21_CommaFractionSuffix ==
    /\ ShorthandCalled
    /\ ShorthandIs(<< " ", "1", ",", "2", ".", "5", "K", " " >>)
    /\ ShorthandResult = << 12500 >>

\* The quotient n / d without its fraction.
TowardZero(n, d) == IF n >= 0 THEN n \div d ELSE 0 - ((0 - n) \div d)

\* C22: for every argument that parses, negative ones included, the result
\* is the product numeric value * multiplier rounded toward zero.
Claim22_RoundsTowardZero ==
    (ShorthandCalled /\ ~ClaimRejects) =>
        ShorthandResult = << TowardZero(ClaimNumerator, ClaimDenominator) >>

(***************************************************************************)
(* The initial load: the App from its first render, initializeData         *)
(* waiting for fetchItemMapping and fetchLatestPrices, with the navigation *)
(* and, after a load, the selection of items.  Promise.all settles: the    *)
(* browser ends each fetch with a response or a network error.             *)
(***************************************************************************)
InitBootstrap ==
    /\ IdleTax
    /\ IdleParse
    /\ IdleHistory
    /\ investments = <<>> /\ latestPrices = <<>>
    /\ openPositions = <<>> /\ closedPositions = <<>> /\ summaryStats = NoReturn
    /\ \/ session = Null /\ profile = Null
       \/ session = UserSession /\ profile = NamedProfile
    /\ profilePending = FALSE
    /\ currentView = "search" /\ selectedItem = Null /\ error = Null
    /\ isAuthModalOpen = FALSE /\ isProfileModalOpen = FALSE
    /\ watchlist = <<>> /\ alerts = <<>>
    /\ isAddInvestmentModalOpen = FALSE /\ investmentModalItem = Null
    /\ addModal = Null /\ portfolioPage = Null /\ sellModal = Null
    /\ inflight = EmptyBag
    /\ storeInvestments = {} /\ storeWatchlist = {} /\ nextId = 1
    /\ items = <<>> /\ isLoading = TRUE /\ isItemLoading = FALSE
    /\ timeseries = <<>> /\ itemView = Null /\ fetches = <<>> /\ fetchCount = 0

InitializeDataDone == \E ok \in BOOLEAN, hashItem \in { Null, Some(1) } :
                          InitializeDataSettles(ok, hashItem)

NextBootstrap ==
    \/ InitializeDataDone
    \/ \E view \in { "search", "portfolio", "alerts" } : SwitchView(view)
    \/ \E item \in ItemIds : HandleSelectTimedItem(item)
    \/ \E k \in DOMAIN fetches, ok \in BOOLEAN : FetchTimeseriesSettles(k, ok)

SpecBootstrap ==
    InitBootstrap /\ [][NextBootstrap]_vars /\ WF_vars(InitializeDataDone)

\* The initial load has failed.
BootstrapFailed == error = Some(InitialLoadMessage)

\* C23: the initial load ends with isLoading false for good; a step in
\* which it fails sets the error message and leaves the item map and the
\* latest-price map empty; after a failure both maps stay empty, no load is
\* started again, and every view the user can go to shows the error message
\* in the place of its content.
Claim23_Bootstrap ==
    /\ <>[](~isLoading)
    /\ [][(isLoading /\ ~isLoading') =>
             \/ error' = Null /\ items' = Items /\ latestPrices' = AppLatestPrices
             \/ BootstrapFailed' /\ items' = <<>> /\ latestPrices' = <<>>]_vars
    /\ [][~isLoading => ~isLoading']_vars
    /\ [](BootstrapFailed =>
             /\ ~isLoading /\ items = <<>> /\ latestPrices = <<>>
             /\ currentView # "item" /\ fetchCount = 0
             /\ ErrorRendered(Cur) /\ ~ContentRendered(Cur)
             /\ portfolioPage = Null /\ itemView = Null)

\* C23 witness: the load has failed and the signed-in user has gone to the
\* portfolio view, where the page is not mounted.
Witness23_FailedThenPortfolio ==
    /\ BootstrapFailed /\ ~isLoading
    /\ currentView = "portfolio" /\ portfolioPage = Null

(***************************************************************************)
(* The watchlist under overlapping toggles.                                *)
(***************************************************************************)
\* How often the item id occurs in the list.
Occurrences(list, itemId) == Cardinality({ k \in DOMAIN list : list[k] = itemId })

\* C24: under every interleaving of toggles of an item with the settling
\* of earlier add and remove requests that still wait, the local watchlist
\* holds no item id more than once.
Claim24_NoDuplicateIds ==
    \A itemId \in ItemIds : Occurrences(watchlist, itemId) <= 1

\* C25: whenever the user is signed in and no request to the store's
\* watchlist waits (no load, add or remove), an item is in the local
\* watchlist exactly when it is in the store's watchlist of the user.
Claim25_WatchlistConverges ==
    (/\ session # Null
     /\ \A r \in BagToSet(inflight) : r.kind # "loadUserData"
     /\ \A itemId \in ItemIds : TogglesInFlight(inflight, itemId) = 0) =>
        \A itemId \in ItemIds : Includes(watchlist, itemId) <=> itemId \in storeWatchlist

(***************************************************************************)
(* The selection of items and the price fetches: the signed-in user goes   *)
(* between the lists and the item view of both items and changes the time  *)
(* view; the fetches settle in any order, each with data or an error.  The *)
(* runs are shorter than the refresh countdown.                            *)
(***************************************************************************)
SelectTimeViews == { "1D", "1W" }

NextSelect ==
    \/ \E view \in { "search", "portfolio", "alerts" } : SwitchView(view)
    \/ \E item \in ItemIds : HandleSelectTimedItem(item)
    \/ \E timeView \in SelectTimeViews : HandleTimeViewChange(timeView)
    \/ \E k \in DOMAIN fetches, ok \in BOOLEAN : FetchTimeseriesSettles(k, ok)

SpecSelect == InitSignedIn /\ [][NextSelect]_vars

\* The call made last waits among the fetches.
NewestWaits == \E k \in DOMAIN fetches : fetches[k].request = fetchCount

\* C26: whenever an item is selected, no fetch waits and no fetch has
\* failed, the timeseries in state is the response to the request made
\* last, for the selected item; and the response to an earlier request
\* that arrives late sets no timeseries after the selection was cleared and
\* does not turn isItemLoading off while the request made last waits.
Claim26_NewestResponseWins ==
    /\ [](  (selectedItem # Null /\ fetches = <<>> /\ error = Null)
              => \A i \in DOMAIN timeseries :
                    /\ timeseries[i].request = fetchCount
                    /\ timeseries[i].item = ValueOf(selectedItem))
    /\ [][\A k \in DOMAIN fetches, ok \in BOOLEAN :
              FetchTimeseriesSettles(k, ok) =>
                  /\ selectedItem = Null => timeseries' = <<>>
                  /\ NewestWaits' => isItemLoading']_vars

\* C29: after a failed price fetch every view but the item view still
\* renders its content, and a later price fetch that succeeds leaves no
\* error behind.
Claim29_FetchFailureNotFatal ==
    /\ []((error # Null /\ error # Some(InitialLoadMessage)) => ContentRendered(Cur))
    /\ [][\A k \in DOMAIN fetches :
              FetchTimeseriesSettles(k, TRUE) => error' = Null]_vars

\* C27: once the session is absent and every request has settled, the
\* local watchlist and the local investment list are empty (and so they
\* stay until a session starts), also when a loadUserData started while
\* signed in settles after the sign-out.
Claim27_LogoutClearsUserData ==
    (session = Null /\ inflight = EmptyBag) =>
        watchlist = <<>> /\ investments = <<>>

(***************************************************************************)
(* The refresh countdown of the ItemView: item 1 on screen, the seconds    *)
(* ticking, the switch, the refresh button and the time views; the fetches *)
(* are answered with data.                                                 *)
(***************************************************************************)
RefreshTimeViews == { "1D", "1W" }

InitRefresh == InitSignedOut /\ storeInvestments = {} /\ storeWatchlist = {}

NextRefresh ==
    \/ \E view \in { "search" } : SwitchView(view)
    \/ \E item \in { 1 } : HandleSelectTimedItem(item)
    \/ Tick
    \/ HandleToggleAutoRefresh
    \/ HandleManualRefresh
    \/ \E timeView \in RefreshTimeViews : HandleTimeViewChange(timeView)
    \/ \E k \in DOMAIN fetches : FetchTimeseriesSettles(k, TRUE)

SpecRefresh == InitRefresh /\ [][NextRefresh]_vars

\* The step makes exactly one fetchTimeseries call, for the selected item at
\* the step of the time view that is active after the step.
OneRefresh ==
    /\ fetchCount' = fetchCount + 1
    /\ fetches' = Append(fetches,
                         Fetch(ValueOf(selectedItem),
                               timeViewToApiTimeStep(ValueOf(itemView').activeTimeView),
                               fetchCount + 1))

\* C28: the countdown of the mounted ItemView is within 0 .. 300; while
\* auto-refresh is on a tick takes one second off, and the tick that brings
\* it to 0 makes exactly one refresh of the current item at the step of the
\* current time view and puts the countdown back to 300; while auto-refresh
\* stays off the countdown stands still and only the refresh button and the
\* time views make a refresh; switching auto-refresh on starts the
\* countdown at 300.
Claim28_Countdown ==
    /\ [](itemView # Null => View.countdown \in 0 .. REFRESH_SECONDS)
    /\ [][Tick =>
             /\ View.isAutoRefreshEnabled
             /\ IF View.countdown > 1
                THEN /\ ValueOf(itemView').countdown = View.countdown - 1
                     /\ fetchCount' = fetchCount
                ELSE /\ OneRefresh
                     /\ ValueOf(itemView').countdown = REFRESH_SECONDS]_vars
    /\ [][(itemView # Null /\ itemView' # Null
              /\ ~View.isAutoRefreshEnabled /\ ~ValueOf(itemView').isAutoRefreshEnabled) =>
             /\ ValueOf(itemView').countdown = View.countdown
             /\ fetchCount' # fetchCount =>
                   \/ HandleManualRefresh
                   \/ \E timeView \in TimeViews : HandleTimeViewChange(timeView)]_vars
    /\ [][(itemView # Null /\ itemView' # Null
              /\ ~View.isAutoRefreshEnabled /\ ValueOf(itemView').isAutoRefreshEnabled) =>
             ValueOf(itemView').countdown = REFRESH_SECONDS]_vars

\* C28 witness: in the one-day view with auto-refresh on, the third fetch
\* of the run waits for its answer at the 5m step and the countdown has run
\* down to its last second since.
Witness28_SecondRound ==
    /\ itemView # Null /\ View.isAutoRefreshEnabled
    /\ View.activeTimeView = "1D" /\ View.countdown = 1
    /\ fetchCount = 3
    /\ \E k \in DOMAIN fetches : fetches[k] = Fetch(1, "5m", 3)

\* ---- the frame of add, close and delete on the local list
\* The positions of the local list that hold the record with the id.
PositionsOf(id) == { i \in DOMAIN investments : investments[i].id = id }

\* The list without its position p.
WithoutPosition(list, p) == SubSeq(list, 1, p - 1) \o SubSeq(list, p + 1, Len(list))

\* The step adds exactly one record, the store's new row, in front of the
\* records of before.
AddedInFront ==
    /\ Len(investments') = Len(investments) + 1
    /\ Tail(investments') = investments
    /\ Head(investments') \in storeInvestments' \ storeInvestments
    /\ PositionsOf(Head(investments').id) = {}

\* The step puts the store's row of the id in the place of the record with
\* the id and leaves every other position as it was.
ReplacedInPlace(id) ==
    /\ Cardinality(PositionsOf(id)) <= 1
    /\ DOMAIN investments' = DOMAIN investments
    /\ \A i \in DOMAIN investments :
          investments'[i] = IF i \in PositionsOf(id)
                            THEN CHOOSE row \in storeInvestments' : row.id = id
                            ELSE investments[i]

\* The step takes the record with the id out of the list and leaves the
\* other records in their order.
RemovedById(id) ==
    /\ Cardinality(PositionsOf(id)) <= 1
    /\ IF PositionsOf(id) = {}
       THEN investments' = investments
       ELSE \E p \in PositionsOf(id) : investments' = WithoutPosition(investments, p)

\* C30: a successful add puts exactly one new record in front of the local
\* list, a successful close puts the store's returned row in the place of
\* exactly the record with the id, and a successful delete takes out exactly
\* the record with the id, whether it is open or closed; the other records
\* and their order stay as they were.
Claim30_FrameOfAddCloseDelete ==
    [][ \A r \in BagToSet(inflight) :
          /\ AddInvestmentSettles(r, TRUE) => AddedInFront
          /\ CloseInvestmentSettles(r, TRUE) => ReplacedInPlace(r.investmentId)
          /\ DeleteInvestmentSettles(r, TRUE) => RemovedById(r.investmentId) ]_vars

\* The record of the start was sold and is alone in the list again: a
\* second record was added in front of it and deleted without it.
Witness30_AddedClosedDeleted ==
    /\ nextId = 3
    /\ Len(investments) = 1
    /\ investments[1].id = 1
    /\ investments[1].sell_price # Null
    /\ storeInvestments = { investments[1] }
    /\ inflight = EmptyBag
====
